---- MODULE Spec2Model ----
(***************************************************************************)
(* Samsung Health Dashboard: the ingestion and aggregation pipeline of     *)
(* src/src/utils/healthParser.ts and the upload flow of src/src/App.tsx.   *)
(*                                                                         *)
(* Text is a sequence of one-character strings.  Instants are whole        *)
(* minutes relative to 2024-01-01T00:00Z.  The module holds several        *)
(* specifications over one set of variables; each specification drives the *)
(* variables of one part of the program and leaves the others idle.        *)
(***************************************************************************)
EXTENDS Integers, Sequences, FiniteSets, TLC

VARIABLES
    line, fields, splitPc,                  \* splitCSVLine: argument, result, position
    csvText, csvHeader, csvResult, csvPc,   \* parseCSV: argument (its lines), headerLineIndex, result, position
    step, allStats, selectedYear,           \* App: the React state of lines 218-221
    uploadPc,                               \* handleFileUpload: idle, awaiting, returned or caught
    rawData,                                \* handleFileUpload: the export being ingested
    enrichedSleep, keptSleep,               \* transformHealthData: its locals of the last call
    zipJson,                                \* parseSamsungHealthZip: the archive's .json entries, by file name
    zipEntries, zipCategory, zipRowsLeft,   \* its loop: entries seen, the entry's category, rows to go
    binningData, binReads, binRefs,         \* data.binningData; reads of each bin file; names referenced
    zipData, zipPc,                         \* rows per category of data; position
    zipFileNames,                           \* the _fileName values of the rows of each category
    corrX, corrY, corrResult,               \* calculateCorrelation: arguments, value returned
    minutesArray, circResult,               \* calculateCircularAverage: argument, value returned
    circTenths, hhmm,                       \* that value in tenths of a minute; formatToHHmm of it
    mathPc,                                 \* which of the two was called, and whether it returned
    healthData, today,                      \* transformHealthData's statistics: the data; the current date
    statsResult, statsPc,                   \* the record it returns; whether it has returned
    activeView,                             \* App: the view shown on the dashboard
    activeSlide, slideClick                 \* WrappedView: the slide shown; the last click on its controls

splitVars == <<line, fields, splitPc>>
csvVars == <<csvText, csvHeader, csvResult, csvPc>>
appVars == <<step, allStats, selectedYear, uploadPc, rawData, enrichedSleep, keptSleep>>
zipVars ==
    <<zipJson, zipEntries, zipCategory, zipRowsLeft, binningData, binReads, binRefs, zipData, zipPc,
      zipFileNames>>
mathVars == <<corrX, corrY, corrResult, minutesArray, circResult, circTenths, hhmm, mathPc>>
statsVars == <<healthData, today, statsResult, statsPc>>
wrappedVars == <<activeView, activeSlide, slideClick>>
vars == <<splitVars, csvVars, appVars, zipVars, mathVars, statsVars, wrappedVars>>

(***************************************************************************)
(* Generic helpers.                                                        *)
(***************************************************************************)
Range(s) == {s[i] : i \in 1..Len(s)}

SeqsUpTo(S, n) == UNION {[1..k -> S] : k \in 0..n}

Min(S) == CHOOSE x \in S : \A y \in S : x <= y

Abs(x) == IF x < 0 THEN -x ELSE x

\* The HealthData of an export with no matching entry.
NoData ==
    [corrupt |-> FALSE, sleep |-> <<>>, steps |-> <<>>, heartRate |-> <<>>,
     hrv |-> <<>>, exercises |-> <<>>]

\* What the statistics are computed from: the lists of HealthData, with
\* processedSleep for the sleep list.
NoHealthData ==
    [steps |-> <<>>, exercises |-> <<>>, processedSleep |-> <<>>, heartRate |-> <<>>,
     stress |-> <<>>, oxygenSaturation |-> <<>>, hrv |-> <<>>, binningData |-> <<>>]

IdleStats ==
    /\ healthData = NoHealthData
    /\ today = [year |-> 0, days |-> 0]
    /\ statsResult = <<>>
    /\ statsPc = "idle"

\* No control of the Wrapped story has been clicked.
NoClick == [kind |-> "none", idx |-> 0, from |-> 0]

\* useState('overview') (App.tsx 219) and, WrappedView not being mounted,
\* the useState(0) it starts from (App.tsx 1212).
IdleWrapped ==
    /\ activeView = "overview"
    /\ activeSlide = 0
    /\ slideClick = NoClick

\* The value 0 that calculateCorrelation returns, as numerator / sqrt(radicand).
Zero == [numerator |-> 0, radicand |-> 1]

\* A time as formatToHHmm prints it (healthParser.ts 363-368): the hour
\* and the minute, or the placeholder '--:--'; and no time yet.
NoTime == [k |-> "--:--", h |-> 0, m |-> 0]

NotFormatted == [k |-> "unset", h |-> 0, m |-> 0]

IdleMath ==
    /\ corrX = <<>>
    /\ corrY = <<>>
    /\ corrResult = Zero
    /\ minutesArray = <<>>
    /\ circResult = 0
    /\ circTenths = 0
    /\ hhmm = NotFormatted
    /\ mathPc = "idle"

\* The names of .json entries that rows may refer to.
BinNames == {"a.json", "b.json"}

Categories == {"steps", "exercises", "sleep", "heartRate", "stress", "oxygenSaturation", "hrv"}

IdleZip ==
    /\ zipJson = [n \in BinNames |-> "absent"]
    /\ zipEntries = 0
    /\ zipCategory = "none"
    /\ zipRowsLeft = 0
    /\ binningData = [n \in BinNames |-> "unset"]
    /\ binReads = [n \in BinNames |-> 0]
    /\ binRefs = {}
    /\ zipData = [c \in Categories |-> 0]
    /\ zipFileNames = [c \in Categories |-> {}]
    /\ zipPc = "idle"

\* useState's initial values (App.tsx 218-221); no call is in progress.
IdleApp ==
    /\ step = "upload"
    /\ allStats = [present |-> FALSE, keys |-> {}]
    /\ selectedYear = "All Time"
    /\ uploadPc = "idle"
    /\ rawData = NoData
    /\ enrichedSleep = <<>>
    /\ keptSleep = <<>>

(***************************************************************************)
(* splitCSVLine (healthParser.ts 159-176).                                 *)
(***************************************************************************)
Quote == "\""

Comma == ","

\* JavaScript's String.prototype.trim on the characters the model draws.
IsSpace(c) == c \in {" ", "\r"}

RECURSIVE TrimLeft(_)
TrimLeft(s) ==
    IF s # <<>> /\ IsSpace(Head(s)) THEN TrimLeft(Tail(s)) ELSE s

RECURSIVE TrimRight(_)
TrimRight(s) ==
    IF s # <<>> /\ IsSpace(s[Len(s)]) THEN TrimRight(SubSeq(s, 1, Len(s) - 1)) ELSE s

Trim(s) == TrimRight(TrimLeft(s))

\* .replace(/^"|"$/g, ''): one quote off the front, and one off the back of
\* what is left after it.
StripQuotes(s) ==
    LET a == IF s # <<>> /\ Head(s) = Quote THEN Tail(s) ELSE s
    IN  IF a # <<>> /\ a[Len(a)] = Quote THEN SubSeq(a, 1, Len(a) - 1) ELSE a

\* .replace(/""/g, '"'): left to right, matches do not overlap.
RECURSIVE CollapseQuotes(_)
CollapseQuotes(s) ==
    IF Len(s) < 2 THEN s
    ELSE IF s[1] = Quote /\ s[2] = Quote
         THEN <<Quote>> \o CollapseQuotes(SubSeq(s, 3, Len(s)))
         ELSE <<s[1]>> \o CollapseQuotes(Tail(s))

FinishField(current) == CollapseQuotes(StripQuotes(Trim(current)))

\* The for loop: i is the next index, result/current/inQuotes the locals.
RECURSIVE SplitLoop(_, _, _, _, _)
SplitLoop(l, i, result, current, inQuotes) ==
    IF i > Len(l) THEN Append(result, FinishField(current))
    ELSE LET char == l[i]
         IN  IF char = Quote
             THEN SplitLoop(l, i + 1, result, current, ~inQuotes)
             ELSE IF char = Comma /\ ~inQuotes
                  THEN SplitLoop(l, i + 1, Append(result, FinishField(current)), <<>>, inQuotes)
                  ELSE SplitLoop(l, i + 1, result, Append(current, char), inQuotes)

splitCSVLine(l) == SplitLoop(l, 1, <<>>, <<>>, FALSE)

(***************************************************************************)
(* Inputs of the splitCSVLine specification.                               *)
(***************************************************************************)
MaxLineLen == 5

SplitAlphabet == {"a", "b", Comma, Quote, " "}

\* a,"b,c",d
LineQuotedComma == <<"a", Comma, Quote, "b", Comma, "c", Quote, Comma, "d">>

\* "he said ""hi"""
LineEscapedQuote ==
    <<Quote, "h", "e", " ", "s", "a", "i", "d", " ", Quote, Quote, "h", "i",
      Quote, Quote, Quote>>

SplitInputs == SeqsUpTo(SplitAlphabet, MaxLineLen) \cup {LineQuotedComma, LineEscapedQuote}

IdleSplit == line = <<>> /\ fields = <<>> /\ splitPc = "idle"

IdleCsv == csvText = <<>> /\ csvHeader = 0 /\ csvResult = <<>> /\ csvPc = "idle"

InitSplit ==
    /\ line \in SplitInputs
    /\ fields = <<>>
    /\ splitPc = "call"
    /\ IdleCsv
    /\ IdleApp
    /\ IdleZip
    /\ IdleMath
    /\ IdleStats
    /\ IdleWrapped

SplitCSVLine ==
    /\ splitPc = "call"
    /\ fields' = splitCSVLine(line)
    /\ splitPc' = "done"
    /\ UNCHANGED <<line, csvVars, appVars, zipVars, mathVars, statsVars, wrappedVars>>

NextSplit == SplitCSVLine

SpecSplit == InitSplit /\ [][NextSplit]_vars

(***************************************************************************)
(* parseCSV (healthParser.ts 178-222).  The argument is held as the lines  *)
(* csvText.split('\n') gives; line indices are 1-based here, and a         *)
(* headerLineIndex of 0 stands for the code's -1.                          *)
(***************************************************************************)
UpperLetters ==
    <<"A", "B", "C", "D", "E", "F", "G", "H", "I", "J", "K", "L", "M",
      "N", "O", "P", "Q", "R", "S", "T", "U", "V", "W", "X", "Y", "Z">>

LowerLetters ==
    <<"a", "b", "c", "d", "e", "f", "g", "h", "i", "j", "k", "l", "m",
      "n", "o", "p", "q", "r", "s", "t", "u", "v", "w", "x", "y", "z">>

ToLowerChar(c) ==
    IF \E i \in 1..Len(UpperLetters) : UpperLetters[i] = c
    THEN LowerLetters[CHOOSE i \in 1..Len(UpperLetters) : UpperLetters[i] = c]
    ELSE c

toLowerCase(s) == [i \in 1..Len(s) |-> ToLowerChar(s[i])]

\* String.prototype.includes
Includes(s, sub) ==
    \E k \in 0..(Len(s) - Len(sub)) : SubSeq(s, k + 1, k + Len(sub)) = sub

HeaderKeywords ==
    { <<"d", "a", "t", "e">>,
      <<"t", "i", "m", "e">>,
      <<"c", "o", "u", "n", "t">>,
      <<"e", "f", "f", "i", "c", "i", "e", "n", "c", "y">>,
      <<"d", "u", "r", "a", "t", "i", "o", "n">>,
      <<"s", "t", "e", "p">> }

HeaderScanLimit == 12

MinHeaderColumns == 5

IsWideLine(l) == Len(splitCSVLine(l)) > MinHeaderColumns

IsHeaderLineAnyWide(l) == IsWideLine(l)

\* The test of lines 189-193.
IsHeaderLine(l) ==
    /\ IsWideLine(l)
    /\ \E kw \in HeaderKeywords : Includes(toLowerCase(l), kw)

HeaderLineIndex(lines) ==
    LET scanned == 1..(IF Len(lines) < HeaderScanLimit THEN Len(lines) ELSE HeaderScanLimit)
        byKeyword == {i \in scanned : IsHeaderLine(lines[i])}
        wide == {i \in 1..Len(lines) : IsWideLine(lines[i])}
    IN  IF byKeyword # {} THEN Min(byKeyword)
        ELSE IF wide # {} THEN Min(wide)
        ELSE 0

\* headers.forEach((header, index) => obj[header] = values[index]): a name
\* that occurs twice keeps the value of its last occurrence.
RowObject(headers, values) ==
    [h \in Range(headers) |->
        values[CHOOSE k \in 1..Len(headers) :
                  headers[k] = h /\ \A j \in (k + 1)..Len(headers) : headers[j] # h]]

RECURSIVE DataRowsOfExactArity(_, _, _, _)
DataRowsOfExactArity(lines, i, headers, result) ==
    IF i > Len(lines) THEN result
    ELSE LET l == Trim(lines[i])
             values == splitCSVLine(l)
         IN  IF l = <<>> \/ Len(values) # Len(headers)
             THEN DataRowsOfExactArity(lines, i + 1, headers, result)
             ELSE DataRowsOfExactArity(lines, i + 1, headers, Append(result, RowObject(headers, values)))

RECURSIVE DataRows(_, _, _, _)
DataRows(lines, i, headers, result) ==
    IF i > Len(lines) THEN result
    ELSE LET l == Trim(lines[i])
             values == splitCSVLine(l)
         IN  IF l = <<>> \/ Len(values) < Len(headers)
             THEN DataRows(lines, i + 1, headers, result)
             ELSE DataRows(lines, i + 1, headers, Append(result, RowObject(headers, values)))

parseCSV(lines) ==
    LET headerLineIndex == HeaderLineIndex(lines)
    IN  IF Len(lines) < 2 \/ headerLineIndex = 0 THEN <<>>
        ELSE DataRows(lines, headerLineIndex + 1, splitCSVLine(lines[headerLineIndex]), <<>>)

(***************************************************************************)
(* Inputs of the parseCSV specification: some junk lines, then lines drawn *)
(* from a pool of header-like and data lines.                              *)
(***************************************************************************)
MaxJunk == 13

MaxTail == 3

\* Date,Count,Calorie,Distance,Speed,Source
LineStepHeader ==
    <<"D", "a", "t", "e", Comma, "C", "o", "u", "n", "t", Comma,
      "C", "a", "l", "o", "r", "i", "e", Comma,
      "D", "i", "s", "t", "a", "n", "c", "e", Comma,
      "S", "p", "e", "e", "d", Comma, "S", "o", "u", "r", "c", "e">>

\* TIME,a,b,c,d,e
LineTimeHeader == <<"T", "I", "M", "E", Comma, "a", Comma, "b", Comma, "c", Comma, "d", Comma, "e">>

\* a,b,a,b,a,b: six columns, no keyword
LineWideNoKeyword == <<"a", Comma, "b", Comma, "a", Comma, "b", Comma, "a", Comma, "b">>

\* 1,2,3,4,5,6
LineRow6 == <<"1", Comma, "2", Comma, "3", Comma, "4", Comma, "5", Comma, "6">>

\* 1,2,3,4,5,6,7
LineRow7 == LineRow6 \o <<Comma, "7">>

\* 1,2,3
LineRow3 == <<"1", Comma, "2", Comma, "3">>

\* step,5: a keyword, but two columns
LineMeta == <<"s", "t", "e", "p", Comma, "5">>

LineBlank == <<" ">>

\* How many junk lines precede the rest: none, the three of the header
\* example, and the counts around the scan limit.
JunkCounts == {0, 3} \cup ((HeaderScanLimit - 1)..MaxJunk)

TailLines == {LineStepHeader, LineTimeHeader, LineWideNoKeyword, LineRow6, LineRow7, LineRow3, LineBlank}

CsvInputs ==
    {[i \in 1..(k + Len(tail)) |-> IF i <= k THEN LineMeta ELSE tail[i - k]] :
        k \in JunkCounts, tail \in (SeqsUpTo(TailLines, MaxTail) \ {<<>>})}

InitCsv ==
    /\ csvText \in CsvInputs
    /\ csvHeader = 0
    /\ csvResult = <<>>
    /\ csvPc = "call"
    /\ IdleSplit
    /\ IdleApp
    /\ IdleZip
    /\ IdleMath
    /\ IdleStats
    /\ IdleWrapped

ParseCSV ==
    /\ csvPc = "call"
    /\ csvHeader' = (IF Len(csvText) < 2 THEN 0 ELSE HeaderLineIndex(csvText))
    /\ csvResult' = parseCSV(csvText)
    /\ csvPc' = "done"
    /\ UNCHANGED <<csvText, splitVars, appVars, zipVars, mathVars, statsVars, wrappedVars>>

NextCsv == ParseCSV

SpecCsv == InitCsv /\ [][NextCsv]_vars

(***************************************************************************)
(* Sleep rows and transformHealthData's sleep reconciliation               *)
(* (healthParser.ts 404-486).                                              *)
(*                                                                         *)
(* A date field is [k, t]: k = "absent" (no such field, or an empty one),  *)
(* "bad" (text that Date cannot parse) or "ok" with t its instant.  The    *)
(* duration field dur is what the parseFloat chain of line 415 yields.     *)
(* efficiency is a whole number.  _duration is held in hundredths of a     *)
(* minute, so that rawDuration * efficiency / 100 is exact.                *)
(***************************************************************************)
Absent == [k |-> "absent", t |-> 0]

Bad == [k |-> "bad", t |-> 0]

At(t) == [k |-> "ok", t |-> t]

\* new Date(0), as minutes relative to 2024-01-01 (19723 days earlier).
UnixEpoch == 0 - (19723 * 1440)

NoOffset == [matched |-> FALSE, minus |-> FALSE, hh |-> 0, mm |-> 0]

\* An offset string that the pattern [+-](\d{2}):?(\d{2}) matches.
OffsetText(minus, hh, mm) == [matched |-> TRUE, minus |-> minus, hh |-> hh, mm |-> mm]

parseOffset(offsetStr) ==
    IF ~offsetStr.matched THEN 0
    ELSE (IF offsetStr.minus THEN -1 ELSE 1) * (offsetStr.hh * 60 + offsetStr.mm)

MinutesPerDay == 1440

MsPerMinute == 60000

\* Lines 415-416: a value above 1440 is taken as milliseconds.
RawDurationField(s) ==
    IF s.dur > MinutesPerDay THEN s.dur \div MsPerMinute ELSE s.dur

\* Line 419 calls startTime.includes: with no start field it throws.
StartThrows(s) == s.start.k = "absent"

\* Line 420: no end field gives new Date(0); unparseable text gives NaN.
EndIsNaN(s) == s["end"].k = "bad"

EndInstant(s) == IF s["end"].k = "absent" THEN UnixEpoch ELSE s["end"].t

\* The negation of line 428's test.
EndAfterStart(s) == ~EndIsNaN(s) /\ EndInstant(s) > s.start.t

\* Lines 428-432.
RawDuration(s) ==
    IF EndAfterStart(s) /\ RawDurationField(s) = 0
    THEN EndInstant(s) - s.start.t
    ELSE RawDurationField(s)

LocalStart(s) == s.start.t + parseOffset(s.offset)

RecordedEnd(s) == EndInstant(s) + parseOffset(s.offset)

LocalEnd(s) ==
    IF EndAfterStart(s)
    THEN EndInstant(s) + parseOffset(s.offset)
    ELSE LocalStart(s) + RawDurationField(s)

\* Lines 434-435.
Efficiency(s) == IF s.eff > 0 /\ s.eff <= 1 THEN s.eff * 100 ELSE s.eff

SpanTolerance == 5

\* Lines 445-446: span is taken from the parsed end, also where the end was
\* not usable; a NaN span fails the comparison.
SpanMatches(s) ==
    ~EndIsNaN(s) /\ Abs((EndInstant(s) - s.start.t) - RawDuration(s)) < SpanTolerance

AsleepTimeIgnoringSource(s) ==
    IF Efficiency(s) > 0 /\ Efficiency(s) < 100 /\ SpanMatches(s)
    THEN RawDuration(s) * Efficiency(s)
    ELSE RawDuration(s) * 100

\* Lines 442-449, in hundredths of a minute.
AsleepTime(s) ==
    IF ~s.combined /\ Efficiency(s) > 0 /\ Efficiency(s) < 100 /\ SpanMatches(s)
    THEN RawDuration(s) * Efficiency(s)
    ELSE RawDuration(s) * 100

\* The object of lines 451-460; row stands for the spread ...s, and idx (the
\* row's position in data.sleep) for the identity of the object.
Enrich(s, i) ==
    [ row |-> s,
      idx |-> i,
      _start |-> LocalStart(s),
      _end |-> LocalEnd(s),
      _duration |-> AsleepTime(s),
      _rawDuration |-> RawDuration(s),
      _efficiency |-> Efficiency(s),
      _isCombined |-> s.combined ]

\* Line 422 returns null for a start that does not parse; line 461 filters.
KeepsEnriched(s) == s.start.k = "ok" /\ AsleepTime(s) > 0

RECURSIVE EnrichFrom(_, _)
EnrichFrom(rows, i) ==
    IF i > Len(rows) THEN <<>>
    ELSE (IF KeepsEnriched(rows[i]) THEN <<Enrich(rows[i], i)>> ELSE <<>>)
         \o EnrichFrom(rows, i + 1)

EnrichAll(rows) == EnrichFrom(rows, 1)

\* The comparator of lines 464-468: negative when a sorts before b.
SleepPriority(a, b) ==
    IF a._isCombined /\ ~b._isCombined THEN -1
    ELSE IF ~a._isCombined /\ b._isCombined THEN 1
    ELSE b._duration - a._duration

\* Array.prototype.sort is stable: x goes after the elements that do not
\* sort after it.
RECURSIVE InsertSorted(_, _)
InsertSorted(sorted, x) ==
    IF sorted = <<>> THEN <<x>>
    ELSE IF SleepPriority(Head(sorted), x) <= 0
         THEN <<Head(sorted)>> \o InsertSorted(Tail(sorted), x)
         ELSE <<x>> \o sorted

RECURSIVE SortSleep(_)
SortSleep(rows) ==
    IF rows = <<>> THEN <<>>
    ELSE InsertSorted(SortSleep(SubSeq(rows, 1, Len(rows) - 1)), rows[Len(rows)])

Max2(a, b) == IF a > b THEN a ELSE b

Min2(a, b) == IF a < b THEN a ELSE b

\* Lines 473-475, in minutes.
OverlapDuration(record, kept) ==
    Max2(0, Min2(record._end, kept._end) - Max2(record._start, kept._start))

CoversAtLeast80(record, kept) ==
    OverlapDuration(record, kept) * 1000 >= 8 * record._duration

CoversOfKeptDuration(record, kept) ==
    OverlapDuration(record, kept) * 1000 > 8 * kept._duration

\* Line 478: overlapDuration / record._duration > 0.8, with _duration in
\* hundredths of a minute.
CoversMoreThan80(record, kept) ==
    OverlapDuration(record, kept) * 1000 > 8 * record._duration

IsEncapsulated(record, kept) ==
    \E k \in 1..Len(kept) : CoversMoreThan80(record, kept[k])

\* Lines 470-484.
RECURSIVE Dedup(_, _)
Dedup(sorted, kept) ==
    IF sorted = <<>> THEN kept
    ELSE Dedup(Tail(sorted),
               IF IsEncapsulated(Head(sorted), kept) THEN kept ELSE Append(kept, Head(sorted)))

(***************************************************************************)
(* Year discovery (healthParser.ts 489-526) and the result's keys.  The    *)
(* instants of the model lie within a year of 2024-01-01T00:00Z, and the   *)
(* ambient time zone of getFullYear is taken to be UTC.                    *)
(***************************************************************************)
YearOf(t) == IF t < 0 THEN 2023 ELSE 2024

\* Line 493: day_time when present, else update_time.
StepDate(s) == IF s.day_time.k # "absent" THEN s.day_time ELSE s.update_time

YearsOfDates(dates) == {YearOf(d.t) : d \in {x \in dates : x.k = "ok"}}

DiscoveredYears(data, processedSleep) ==
    YearsOfDates({StepDate(data.steps[i]) : i \in 1..Len(data.steps)})
    \cup {YearOf(processedSleep[i]._start) : i \in 1..Len(processedSleep)}
    \cup YearsOfDates({data.heartRate[i].start_time : i \in 1..Len(data.heartRate)})
    \cup YearsOfDates({data.hrv[i].start_time : i \in 1..Len(data.hrv)})
    \cup YearsOfDates({data.exercises[i].start_time : i \in 1..Len(data.exercises)})

AllTime == "All Time"

\* The keys of the returned record: one per year and, when there is any
\* year, "All Time" (lines 520-528 and 1040-1052).
ResultKeys(years) ==
    IF years = {} THEN {} ELSE {ToString(y) : y \in years} \cup {AllTime}

transformHealthData(data) ==
    IF \E i \in 1..Len(data.sleep) : StartThrows(data.sleep[i])
    THEN [threw |-> TRUE, enriched |-> <<>>, kept |-> <<>>, years |-> {}, keys |-> {}]
    ELSE LET enriched == SortSleep(EnrichAll(data.sleep))
             kept == Dedup(enriched, <<>>)
             years == DiscoveredYears(data, kept)
         IN  [threw |-> FALSE, enriched |-> enriched, kept |-> kept,
              years |-> years, keys |-> ResultKeys(years)]

(***************************************************************************)
(* The upload flow (App.tsx 218-264, 440-447, 534).                        *)
(***************************************************************************)
MaxSleepRows == 3

SleepRow(combined, start, end, dur, eff, offset) ==
    [combined |-> combined, start |-> start, end |-> end, dur |-> dur,
     eff |-> eff, offset |-> offset]

\* One row with every shape of start, end, duration, efficiency and offset.
\* Ends are placed around start + 480 to meet the 5-minute tolerance, and
\* at and before the start.
DetailEnds == {Absent, Bad} \cup {At(t) : t \in {-2, 0, 3, 475, 476, 480, 484, 485}}

DetailDurations == {0, 3, 420, 480, 480 * MsPerMinute}

DetailEfficiencies == {0, 1, 90, 100}

DetailRows ==
    {SleepRow(c, At(0), en, d, e, o) :
        c \in BOOLEAN, en \in DetailEnds, d \in DetailDurations,
        e \in DetailEfficiencies, o \in {NoOffset, OffsetText(FALSE, 5, 30)}}
    \cup {SleepRow(c, st, en, 480, 90, OffsetText(TRUE, 5, 0)) :
        c \in BOOLEAN, st \in {Absent, Bad}, en \in {Absent, At(480)}}

\* Rows with a negative duration and no end after the start: start plus
\* duration lies before the start.
NegativeDurationRows ==
    {SleepRow(c, At(0), en, 0 - 5, e, NoOffset) :
        c \in BOOLEAN, en \in {Absent, Bad, At(-2), At(0)}, e \in {0, 90}}

\* Rows for the dedup, as (start, end, dur, eff): sessions without an end
\* field have the range [start, start + dur); the fourth shape has the
\* range [0, 10) and, when not combined, is asleep for 5 minutes of it; the
\* fifth has the range [0, 2) and a duration of 5 minutes.  Overlaps of
\* 1/4, 2/5, 4/5 and all of a session occur.
OverlapShapes ==
    {<<0, Absent, 5, 0>>, <<1, Absent, 5, 0>>, <<1, Absent, 4, 0>>,
     <<0, At(10), 10, 50>>, <<0, At(2), 5, 0>>}

OverlapRows ==
    {SleepRow(c, At(sh[1]), sh[2], sh[3], sh[4], NoOffset) :
        c \in BOOLEAN, sh \in OverlapShapes}

DatedRecords == {<<>>, <<[start_time |-> Bad]>>, <<[start_time |-> At(5)]>>}

StepRecords ==
    {<<>>,
     <<[day_time |-> Absent, update_time |-> Bad]>>,
     <<[day_time |-> At(-5), update_time |-> At(5)]>>,
     <<[day_time |-> Absent, update_time |-> At(5)]>>}

ExerciseRecords == DatedRecords \cup {<<[start_time |-> Absent]>>}

YearSleepRows ==
    {<<>>,
     <<SleepRow(FALSE, Bad, Absent, 480, 0, NoOffset)>>,
     <<SleepRow(FALSE, At(0), Absent, 0, 0, NoOffset)>>,
     <<SleepRow(FALSE, At(0), Absent, 480, 0, NoOffset)>>,
     <<SleepRow(FALSE, At(0), Absent, 480, 0, OffsetText(TRUE, 5, 0))>>}

Exports ==
    {[NoData EXCEPT !.corrupt = TRUE]}
    \cup {[NoData EXCEPT !.sleep = <<r>>] : r \in DetailRows \cup NegativeDurationRows}
    \cup {[NoData EXCEPT !.sleep = rows] : rows \in SeqsUpTo(OverlapRows, MaxSleepRows)}
    \cup {[corrupt |-> FALSE, sleep |-> sl, steps |-> st, heartRate |-> hr,
           hrv |-> hv, exercises |-> ex] :
            sl \in YearSleepRows, st \in StepRecords, hr \in DatedRecords,
            hv \in DatedRecords, ex \in ExerciseRecords}

InitApp ==
    /\ IdleApp
    /\ IdleSplit
    /\ IdleCsv
    /\ IdleZip
    /\ IdleMath
    /\ IdleStats
    /\ IdleWrapped

\* handleFileUpload up to its await (App.tsx 233-247): a file was chosen
\* on the upload screen; parseSamsungHealthZip is reading it.
HandleFileUpload ==
    /\ step = "upload"
    /\ \E file \in Exports : rawData' = file
    /\ step' = "loading"
    /\ uploadPc' = "awaiting"
    /\ enrichedSleep' = <<>>
    /\ keptSleep' = <<>>
    /\ UNCHANGED <<allStats, selectedYear, splitVars, csvVars, zipVars, mathVars, statsVars, wrappedVars>>

Max(S) == CHOOSE x \in S : \A y \in S : x >= y

\* Lines 251-256: the newest year, or 'All Time' when there is none.
NewestYear(years) == IF years = {} THEN AllTime ELSE ToString(Max(years))

\* What lines 247-248 hand to the rest of the try block: a rejected
\* loadAsync or a throw inside transformHealthData enters the catch.
Ingest(data) ==
    IF data.corrupt
    THEN [threw |-> TRUE, enriched |-> <<>>, kept |-> <<>>, years |-> {}, keys |-> {}]
    ELSE transformHealthData(data)

\* handleFileUpload after its await (App.tsx 247-263).
FinishFileUpload ==
    /\ uploadPc = "awaiting"
    /\ LET out == Ingest(rawData)
       IN  /\ enrichedSleep' = out.enriched
           /\ keptSleep' = out.kept
           /\ IF out.threw
              THEN /\ uploadPc' = "caught"
                   /\ step' = "upload"
                   /\ UNCHANGED <<allStats, selectedYear>>
              ELSE /\ allStats' = [present |-> TRUE, keys |-> out.keys]
                   /\ selectedYear' = NewestYear(out.years)
                   /\ step' = "dashboard"
                   /\ uploadPc' = "returned"
    /\ UNCHANGED <<rawData, splitVars, csvVars, zipVars, mathVars, statsVars, wrappedVars>>

\* Lines 440-447: the dashboard renders only with stats for selectedYear.
DashboardShown == step = "dashboard" /\ allStats.present /\ selectedYear \in allStats.keys

\* The "Sync Data" button (line 534); the finished call's locals are gone.
SyncData ==
    /\ DashboardShown
    /\ step' = "upload"
    /\ uploadPc' = "idle"
    /\ rawData' = NoData
    /\ enrichedSleep' = <<>>
    /\ keptSleep' = <<>>
    /\ UNCHANGED <<allStats, selectedYear, splitVars, csvVars, zipVars, mathVars, statsVars, wrappedVars>>

Next == HandleFileUpload \/ FinishFileUpload \/ SyncData

Spec == InitApp /\ [][Next]_vars

(***************************************************************************)
(* parseSamsungHealthZip (healthParser.ts 224-345).  A path is the set of  *)
(* the substrings the code tests that its lowercase form includes, and     *)
(* whether it ends with .csv.  The archive is met entry by entry and row   *)
(* by row: each entry and each row is chosen when the loop comes to it.    *)
(* A .json entry holds a JSON array ("array"), JSON that parses to a falsy *)
(* value such as null ("null"), or text that is not JSON ("invalid").      *)
(***************************************************************************)
MaxEntries == 2

MaxBinRows == 2

Path(tokens, csv) == [tokens |-> tokens, csv |-> csv]

PathPool ==
    { Path({"heart_rate"}, TRUE),
      Path({"stress"}, TRUE),
      Path({"hrv"}, TRUE),
      Path({"stress", "histogram"}, TRUE),
      Path({"sleep"}, TRUE),
      Path({"sleep", "stage"}, TRUE),
      Path({"step", "trend"}, TRUE),
      Path({"exercise"}, TRUE),
      Path({"exercise", "custom_exercise"}, TRUE),
      Path({"exercise", "weather"}, TRUE),
      Path({"exercise", "location_data"}, TRUE),
      Path({"exercise", "live_data"}, TRUE),
      Path({"exercise", "sleep", "stage"}, TRUE),
      Path({"sleep", "alarm"}, TRUE),
      Path({"sleep", "log"}, TRUE),
      Path({"sleep", "data_source"}, TRUE),
      Path({"sleep", "raw", "heart_rate"}, TRUE),
      Path({"stress", "histogram", "oxygen_saturation"}, TRUE),
      Path({"oxygen_saturation"}, TRUE),
      Path({"heart_rate"}, FALSE) }

\* The chain without the exclusions of each branch.
ClassifyByKeyword(p) ==
    LET has(t) == t \in p.tokens
    IN  IF has("step") /\ has("trend") /\ p.csv THEN "steps"
        ELSE IF has("exercise") /\ p.csv THEN "exercises"
        ELSE IF has("sleep") /\ p.csv THEN "sleep"
        ELSE IF has("heart_rate") /\ p.csv THEN "heartRate"
        ELSE IF has("stress") /\ p.csv THEN "stress"
        ELSE IF has("oxygen_saturation") /\ p.csv THEN "oxygenSaturation"
        ELSE IF has("hrv") /\ p.csv THEN "hrv"
        ELSE "none"

\* The if / else-if chain of lines 256-341; "none" where no branch reads
\* the entry.
Classify(p) ==
    LET has(t) == t \in p.tokens
    IN  IF has("step") /\ has("trend") /\ p.csv THEN "steps"
        ELSE IF /\ has("exercise") /\ p.csv
                /\ ~has("custom_exercise") /\ ~has("weather")
                /\ ~has("location_data") /\ ~has("live_data") THEN "exercises"
        ELSE IF has("sleep") /\ p.csv
             THEN (IF has("stage") \/ has("alarm") \/ has("log")
                      \/ has("data_source") \/ has("raw")
                   THEN "none" ELSE "sleep")
        ELSE IF has("heart_rate") /\ p.csv THEN "heartRate"
        ELSE IF has("stress") /\ p.csv /\ ~has("histogram") THEN "stress"
        ELSE IF has("oxygen_saturation") /\ p.csv THEN "oxygenSaturation"
        ELSE IF has("hrv") /\ p.csv THEN "hrv"
        ELSE "none"

\* The categories whose rows are searched for binning data.
BinCategories == {"heartRate", "stress", "hrv"}

\* A row's binning_data column and its column
\* com.samsung.health.<heart_rate|stress>.binning_data; "" when empty or missing.
BinRow(binning_data, prefixed) == [binning_data |-> binning_data, prefixed |-> prefixed]

BinRowPool ==
    {BinRow(n, "") : n \in BinNames \cup {"", "gone.json"}}
    \cup {BinRow("", n) : n \in BinNames}

\* Lines 290, 308, 330: the HRV branch reads binning_data only.
BinFileName(category, record) ==
    IF record.binning_data # "" THEN record.binning_data
    ELSE IF category = "hrv" THEN ""
    ELSE record.prefixed

InJsonMap(name) == name \in BinNames /\ zipJson[name] # "absent"

\* !data.binningData[binFileName]: nothing stored, or a falsy value stored.
Unresolved(name) == binningData[name] \in {"unset", "null"}

\* How many rows parseCSV finds in an entry; the rows of the categories
\* without binning data are not looked at one by one.
RowCounts(category) == IF category \in BinCategories THEN 0..MaxBinRows ELSE 0..1

InitZip ==
    /\ zipJson \in [BinNames -> {"absent", "array", "null", "invalid"}]
    /\ zipEntries = 0
    /\ zipCategory = "none"
    /\ zipRowsLeft = 0
    /\ binningData = [n \in BinNames |-> "unset"]
    /\ binReads = [n \in BinNames |-> 0]
    /\ binRefs = {}
    /\ zipData = [c \in Categories |-> 0]
    /\ zipFileNames = [c \in Categories |-> {}]
    /\ zipPc = "entries"
    /\ IdleSplit
    /\ IdleCsv
    /\ IdleApp
    /\ IdleMath
    /\ IdleStats
    /\ IdleWrapped

\* One turn of the loop of line 250 up to the rows: the entry is classified
\* and, if a branch takes it, its rows are appended to the category's list.
OpenEntry ==
    /\ zipPc = "entries"
    /\ zipCategory = "none"
    /\ zipEntries < MaxEntries
    /\ \E p \in PathPool : \E n \in RowCounts(Classify(p)) :
        LET category == Classify(p)
        IN  /\ zipData' = IF category = "none" THEN zipData
                          ELSE [zipData EXCEPT ![category] = @ + n]
            /\ zipFileNames' = IF category = "none" \/ n = 0 THEN zipFileNames
                               ELSE [zipFileNames EXCEPT ![category] = @ \cup {p}]
            /\ IF category \in BinCategories /\ n > 0
               THEN zipCategory' = category /\ zipRowsLeft' = n
               ELSE UNCHANGED <<zipCategory, zipRowsLeft>>
    /\ zipEntries' = zipEntries + 1
    /\ UNCHANGED <<zipJson, binningData, binReads, binRefs, zipPc, splitVars, csvVars, appVars, mathVars, statsVars, wrappedVars>>

\* One turn of the loops of lines 289-300, 307-318, 329-340.
ResolveRow ==
    /\ zipPc = "entries"
    /\ zipCategory \in BinCategories
    /\ zipRowsLeft > 0
    /\ \E record \in BinRowPool :
        LET binFileName == BinFileName(zipCategory, record)
        IN  /\ binRefs' = IF binFileName = "" THEN binRefs ELSE binRefs \cup {binFileName}
            /\ IF binFileName # "" /\ InJsonMap(binFileName) /\ Unresolved(binFileName)
               THEN /\ binReads' = [binReads EXCEPT ![binFileName] = @ + 1]
                    /\ binningData' =
                           IF zipJson[binFileName] = "invalid" THEN binningData
                           ELSE [binningData EXCEPT ![binFileName] = zipJson[binFileName]]
               ELSE UNCHANGED <<binReads, binningData>>
    /\ zipRowsLeft' = zipRowsLeft - 1
    /\ zipCategory' = IF zipRowsLeft = 1 THEN "none" ELSE zipCategory
    /\ UNCHANGED <<zipJson, zipEntries, zipData, zipFileNames, zipPc, splitVars, csvVars, appVars, mathVars, statsVars, wrappedVars>>

\* Line 344: the archive has no further entry.
ReturnData ==
    /\ zipPc = "entries"
    /\ zipCategory = "none"
    /\ zipPc' = "done"
    /\ UNCHANGED <<zipJson, zipEntries, zipCategory, zipRowsLeft, binningData, binReads,
                   binRefs, zipData, zipFileNames, splitVars, csvVars, appVars, mathVars, statsVars, wrappedVars>>

NextZip == OpenEntry \/ ResolveRow \/ ReturnData

SpecZip == InitZip /\ [][NextZip]_vars

(***************************************************************************)
(* calculateCorrelation (healthParser.ts 382-396).  The sums are integers; *)
(* the value returned is kept exactly, as numerator / sqrt(radicand).      *)
(***************************************************************************)
RECURSIVE SumSeq(_)
SumSeq(s) ==
    IF s = <<>> THEN 0
    ELSE IF Len(s) = 1 THEN s[1]
    ELSE LET half == Len(s) \div 2
         IN  SumSeq(SubSeq(s, 1, half)) + SumSeq(SubSeq(s, half + 1, Len(s)))

Products(x, y) == [i \in 1..Len(x) |-> x[i] * y[i]]

NumeratorUncentred(x, y) == Len(x) * SumSeq(Products(x, y))

\* Line 392.
Numerator(x, y) == Len(x) * SumSeq(Products(x, y)) - SumSeq(x) * SumSeq(y)

\* Line 393: what Math.sqrt is applied to.
Radicand(x, y) ==
    (Len(x) * SumSeq(Products(x, x)) - SumSeq(x) * SumSeq(x))
        * (Len(y) * SumSeq(Products(y, y)) - SumSeq(y) * SumSeq(y))

calculateCorrelation(x, y) ==
    IF Len(x) # Len(y) \/ Len(x) = 0 THEN Zero
    ELSE IF Radicand(x, y) = 0 THEN Zero
    ELSE [numerator |-> Numerator(x, y), radicand |-> Radicand(x, y)]

(***************************************************************************)
(* calculateCircularAverage (healthParser.ts 349-361).  Math.sin and       *)
(* Math.cos are a table of the sine of every whole minute of the first     *)
(* quarter of the day, in units of 1/10000, extended by symmetry; angles   *)
(* are in minutes of the day (1440 to the turn) and the value returned is  *)
(* rounded to the minute.  Where the exact sine sum is 0 the floating-point*)
(* sum is a rounding residue of either sign, so both outcomes are kept.    *)
(***************************************************************************)
SinTable ==
    <<
           0,    44,    87,   131,   175,   218,   262,   305,   349,   393,   436,   480,
         523,   567,   610,   654,   698,   741,   785,   828,   872,   915,   958,  1002,
        1045,  1089,  1132,  1175,  1219,  1262,  1305,  1349,  1392,  1435,  1478,  1521,
        1564,  1607,  1650,  1693,  1736,  1779,  1822,  1865,  1908,  1951,  1994,  2036,
        2079,  2122,  2164,  2207,  2250,  2292,  2334,  2377,  2419,  2462,  2504,  2546,
        2588,  2630,  2672,  2714,  2756,  2798,  2840,  2882,  2924,  2965,  3007,  3049,
        3090,  3132,  3173,  3214,  3256,  3297,  3338,  3379,  3420,  3461,  3502,  3543,
        3584,  3624,  3665,  3706,  3746,  3786,  3827,  3867,  3907,  3947,  3987,  4027,
        4067,  4107,  4147,  4187,  4226,  4266,  4305,  4344,  4384,  4423,  4462,  4501,
        4540,  4579,  4617,  4656,  4695,  4733,  4772,  4810,  4848,  4886,  4924,  4962,
        5000,  5038,  5075,  5113,  5150,  5188,  5225,  5262,  5299,  5336,  5373,  5410,
        5446,  5483,  5519,  5556,  5592,  5628,  5664,  5700,  5736,  5771,  5807,  5842,
        5878,  5913,  5948,  5983,  6018,  6053,  6088,  6122,  6157,  6191,  6225,  6259,
        6293,  6327,  6361,  6394,  6428,  6461,  6494,  6528,  6561,  6593,  6626,  6659,
        6691,  6724,  6756,  6788,  6820,  6852,  6884,  6915,  6947,  6978,  7009,  7040,
        7071,  7102,  7133,  7163,  7193,  7224,  7254,  7284,  7314,  7343,  7373,  7402,
        7431,  7461,  7490,  7518,  7547,  7576,  7604,  7632,  7660,  7688,  7716,  7744,
        7771,  7799,  7826,  7853,  7880,  7907,  7934,  7960,  7986,  8013,  8039,  8064,
        8090,  8116,  8141,  8166,  8192,  8216,  8241,  8266,  8290,  8315,  8339,  8363,
        8387,  8410,  8434,  8457,  8480,  8504,  8526,  8549,  8572,  8594,  8616,  8638,
        8660,  8682,  8704,  8725,  8746,  8767,  8788,  8809,  8829,  8850,  8870,  8890,
        8910,  8930,  8949,  8969,  8988,  9007,  9026,  9045,  9063,  9081,  9100,  9118,
        9135,  9153,  9171,  9188,  9205,  9222,  9239,  9255,  9272,  9288,  9304,  9320,
        9336,  9351,  9367,  9382,  9397,  9412,  9426,  9441,  9455,  9469,  9483,  9497,
        9511,  9524,  9537,  9550,  9563,  9576,  9588,  9600,  9613,  9625,  9636,  9648,
        9659,  9670,  9681,  9692,  9703,  9713,  9724,  9734,  9744,  9753,  9763,  9772,
        9781,  9790,  9799,  9808,  9816,  9825,  9833,  9840,  9848,  9856,  9863,  9870,
        9877,  9884,  9890,  9897,  9903,  9909,  9914,  9920,  9925,  9931,  9936,  9941,
        9945,  9950,  9954,  9958,  9962,  9966,  9969,  9973,  9976,  9979,  9981,  9984,
        9986,  9988,  9990,  9992,  9994,  9995,  9997,  9998,  9998,  9999, 10000, 10000,
       10000
    >>

QuarterDay == Len(SinTable) - 1

TrigUnit == SinTable[QuarterDay + 1]

Sin(m) ==
    LET r == m % MinutesPerDay
    IN  IF r <= QuarterDay THEN SinTable[r + 1]
        ELSE IF r <= 2 * QuarterDay THEN SinTable[2 * QuarterDay - r + 1]
        ELSE IF r <= 3 * QuarterDay THEN 0 - SinTable[r - 2 * QuarterDay + 1]
        ELSE 0 - SinTable[MinutesPerDay - r + 1]

Cos(m) == Sin(m + QuarterDay)

\* Math.atan2(y, x) of line 358, for y and x not both 0, as [negative,
\* minutes] for the angle -minutes or +minutes: the whole minutes n nearest
\* to the direction of (x, y), which lies between n - 1 and n + 1, on the
\* side that the sign of y gives; either side when y is 0.
Atan2(y, x) ==
    LET Cross(n) == y * Cos(n) - x * Sin(n)
        Dot(n) == x * Cos(n) + y * Sin(n)
        nearest == {n \in (0 - 2 * QuarterDay)..(2 * QuarterDay) :
                       /\ Dot(n) > 0
                       /\ Cross(n - 1) > 0
                       /\ Cross(n + 1) < 0
                       /\ Abs(Cross(n)) <= Abs(Cross(n - 1))
                       /\ Abs(Cross(n)) <= Abs(Cross(n + 1))}
        signs == IF y > 0 THEN {FALSE} ELSE IF y < 0 THEN {TRUE} ELSE {FALSE, TRUE}
    IN  {[negative |-> neg, minutes |-> Abs(n)] :
            <<neg, n>> \in {p \in signs \X nearest : IF p[1] THEN p[2] <= 0 ELSE p[2] >= 0}}

LinearAverage(arr) == IF Len(arr) = 0 THEN {0} ELSE {SumSeq(arr) \div Len(arr)}

calculateCircularAverage(arr) ==
    IF Len(arr) = 0 THEN {0}
    ELSE LET sinSum == SumSeq([i \in 1..Len(arr) |-> Sin(arr[i])])
             cosSum == SumSeq([i \in 1..Len(arr) |-> Cos(arr[i])])
         IN  IF sinSum = 0 /\ cosSum = 0 THEN 0..MinutesPerDay
             ELSE { IF avgAngle.negative THEN MinutesPerDay - avgAngle.minutes
                    ELSE avgAngle.minutes : avgAngle \in Atan2(sinSum, cosSum) }

\* Math.round(num / den) for den > 0: halves round up.
Round(num, den) == (2 * num + den) \div (2 * den)

\* The side of the whole minute n on which the value returned lies: the
\* resultant of the times turns to the left of n (1), to its right (-1),
\* or points along it (0).
SideOf(arr, n) ==
    LET across == SumSeq([i \in 1..Len(arr) |-> Sin(arr[i] - n)])
    IN  IF across > 0 THEN 1 ELSE IF across < 0 THEN 0 - 1 ELSE 0

\* Line 360: the value returned is a fraction of a minute.  Of a value
\* whose nearest whole minute is n, the tenths of a minute that stand for
\* it: 10 * n when it is n itself, else a value less than half a minute
\* above n or at most half a minute below n.
AverageInTenths(arr, n) ==
    IF Len(arr) = 0 THEN {0}
    ELSE IF SideOf(arr, n) = 0 THEN {10 * n}
    ELSE IF SideOf(arr, n) = 1 THEN (10 * n + 1)..(10 * n + 4)
    ELSE (10 * n - 5)..(10 * n - 1)

\* Lines 363-368, for minutes given in tenths of a minute: the hour and
\* the minute that are printed, each padded to two digits.
formatToHHmm(tenths) ==
    IF tenths = 0 THEN NoTime
    ELSE [k |-> "HH:MM", h |-> (tenths \div 600) % 24, m |-> Round(tenths % 600, 10)]

MaxSeries == 3

SeriesValues == (0 - 1)..2

MaxTimes == 3

TimeValues == {0, 10, 360, 1080, 1430, 1439}

InitMath ==
    /\ \/ /\ mathPc = "correlation"
          /\ corrX \in SeqsUpTo(SeriesValues, MaxSeries)
          /\ corrY \in SeqsUpTo(SeriesValues, MaxSeries)
          /\ minutesArray = <<>>
       \/ /\ mathPc = "circular"
          /\ minutesArray \in SeqsUpTo(TimeValues, MaxTimes)
          /\ corrX = <<>>
          /\ corrY = <<>>
    /\ corrResult = Zero
    /\ circResult = 0
    /\ circTenths = 0
    /\ hhmm = NotFormatted
    /\ IdleSplit
    /\ IdleCsv
    /\ IdleApp
    /\ IdleZip
    /\ IdleStats
    /\ IdleWrapped

CalculateCorrelation ==
    /\ mathPc = "correlation"
    /\ corrResult' = calculateCorrelation(corrX, corrY)
    /\ mathPc' = "correlated"
    /\ UNCHANGED <<corrX, corrY, minutesArray, circResult, circTenths, hhmm, splitVars, csvVars,
                   appVars, zipVars, statsVars, wrappedVars>>

CalculateCircularAverage ==
    /\ mathPc = "circular"
    /\ circResult' \in calculateCircularAverage(minutesArray)
    /\ circTenths' \in AverageInTenths(minutesArray, circResult')
    /\ mathPc' = "averaged"
    /\ UNCHANGED <<corrX, corrY, corrResult, minutesArray, hhmm, splitVars, csvVars, appVars,
                   zipVars, statsVars, wrappedVars>>

\* Lines 990-991: formatToHHmm(calculateCircularAverage(...)).
FormatToHHmm ==
    /\ mathPc = "averaged"
    /\ hhmm' = formatToHHmm(circTenths)
    /\ mathPc' = "formatted"
    /\ UNCHANGED <<corrX, corrY, corrResult, minutesArray, circResult, circTenths, splitVars,
                   csvVars, appVars, zipVars, statsVars, wrappedVars>>

NextMath == CalculateCorrelation \/ CalculateCircularAverage \/ FormatToHHmm

SpecMath == InitMath /\ [][NextMath]_vars

(***************************************************************************)
(* The statistics of transformHealthData (healthParser.ts 528-1156).  A    *)
(* day (the date part of toISOString) is the number of whole days since    *)
(* 2024-01-01, so that localeCompare on dates is the order of the numbers. *)
(* Numeric fields hold what parseInt / parseFloat (... || 0) yield, as     *)
(* whole numbers.  NaN and Infinity are the strings "NaN" and "Infinity".  *)
(***************************************************************************)
DayOf(t) == t \div MinutesPerDay

InYear(date, yearInt) == date.k = "ok" /\ YearOf(date.t) = yearInt

\* Line 535.
MatchesSource(s) == s.source_type \in {"-2", ""}

\* Lines 532-537.
YearSteps(data, yearInt) ==
    SelectSeq(data.steps, LAMBDA s : InYear(StepDate(s), yearInt) /\ MatchesSource(s))

\* Array.prototype.sort with a numeric comparator.
RECURSIVE InsertTime(_, _)
InsertTime(sorted, t) ==
    IF sorted = <<>> THEN <<t>>
    ELSE IF t < Head(sorted) THEN <<t>> \o sorted
    ELSE <<Head(sorted)>> \o InsertTime(Tail(sorted), t)

RECURSIVE SortTimes(_)
SortTimes(times) ==
    IF times = <<>> THEN <<>>
    ELSE InsertTime(SortTimes(SubSeq(times, 1, Len(times) - 1)), times[Len(times)])

\* The members of a set in some order.
RECURSIVE SetToSeq(_)
SetToSeq(S) == IF S = {} THEN <<>> ELSE LET x == CHOOSE y \in S : TRUE IN <<x>> \o SetToSeq(S \ {x})

\* Lines 912-914.
SortedStepDates(yearSteps) ==
    SortTimes([i \in 1..Len(yearSteps) |-> StepDate(yearSteps[i]).t])

\* The loop of lines 918-926, from index i (the source's i - 1).
RECURSIVE StreakLoop(_, _, _, _)
StreakLoop(dates, i, currentStreak, longestStreak) ==
    IF i > Len(dates) THEN longestStreak
    ELSE IF dates[i] - dates[i - 1] <= MinutesPerDay
         THEN StreakLoop(dates, i + 1, currentStreak + 1, Max2(longestStreak, currentStreak + 1))
         ELSE StreakLoop(dates, i + 1, 0, longestStreak)

ClosePairs(yearSteps) ==
    LET dates == SortedStepDates(yearSteps)
    IN  Cardinality({i \in 2..Len(dates) : dates[i] - dates[i - 1] <= MinutesPerDay})

LongestStreak(yearSteps) == StreakLoop(SortedStepDates(yearSteps), 2, 0, 0)

\* Line 540.
TotalSteps(yearSteps) == SumSeq([i \in 1..Len(yearSteps) |-> yearSteps[i].count])

\* An empty or missing numeric column of a CSV row.
Blank == 0 - 1

\* Math.min() of no arguments; it exceeds every sample.
Infinity == 2 ^ 30

\* 0 / 0; the only test ever made of it is NaN > 0, which is false.
NotANumber == 0 - 1

\* data.binningData[a] || data.binningData[b]: the bins of the first name
\* that has an entry; an empty array is truthy.
BinData(data, a, b) ==
    IF a \in DOMAIN data.binningData THEN [found |-> TRUE, bins |-> data.binningData[a]]
    ELSE IF b \in DOMAIN data.binningData THEN [found |-> TRUE, bins |-> data.binningData[b]]
    ELSE [found |-> FALSE, bins |-> <<>>]

\* The truthy values of one field of the bins.
BinValues(bins, field) ==
    LET values == [i \in 1..Len(bins) |-> bins[i][field]]
    IN  SelectSeq(values, LAMBDA v : v # 0)

\* Lines 584-591.
HRSamples(data, hr) ==
    LET binData == BinData(data, hr.binning_data, hr.prefixed)
    IN  IF binData.found THEN BinValues(binData.bins, "heart_rate")
        ELSE IF hr.heart_rate # Blank THEN <<hr.heart_rate>>
        ELSE <<>>

\* Lines 601-606.
HRVSamples(data, h) ==
    LET binData == BinData(data, h.binning_data, h.binning_data)
    IN  IF binData.found THEN BinValues(binData.bins, "rmssd") ELSE <<>>

\* Line 621: the flat value is the score column.
FlatScore(s) == s.score

\* Lines 616-623.
StressSamples(data, s) ==
    LET binData == BinData(data, s.binning_data, s.prefixed)
    IN  IF binData.found THEN BinValues(binData.bins, "score")
        ELSE IF FlatScore(s) # Blank THEN <<FlatScore(s)>>
        ELSE <<>>

\* Line 633.
SpO2Samples(data, o) == IF o.spo2 # Blank THEN <<o.spo2>> ELSE <<>>

RECURSIVE FlattenSeq(_)
FlattenSeq(seqs) == IF seqs = <<>> THEN <<>> ELSE Head(seqs) \o FlattenSeq(Tail(seqs))

\* The records of a list that fall in the year (lines 579-580 and alike).
RecordsOfYear(records, yearInt) == SelectSeq(records, LAMBDA r : InYear(r.start_time, yearInt))

\* The keys of wellnessData.<metric>, ascending.
RecordDays(records, yearInt) ==
    LET rs == RecordsOfYear(records, yearInt)
    IN  SortTimes(SetToSeq({DayOf(rs[i].start_time.t) : i \in 1..Len(rs)}))

\* wellnessData.<metric>[day].
SamplesOf(data, metric, r) ==
    CASE metric = "heartRate" -> HRSamples(data, r)
      [] metric = "hrv" -> HRVSamples(data, r)
      [] metric = "stress" -> StressSamples(data, r)
      [] metric = "oxygenSaturation" -> SpO2Samples(data, r)

SamplesOn(data, metric, yearInt, day) ==
    LET rs == SelectSeq(RecordsOfYear(data[metric], yearInt), LAMBDA r : DayOf(r.start_time.t) = day)
    IN  FlattenSeq([i \in 1..Len(rs) |-> SamplesOf(data, metric, rs[i])])

\* Line 639: about the 10th percentile.
RestingHR(vals) == IF vals = <<>> THEN 0 ELSE SortTimes(vals)[(Len(vals) \div 10) + 1]

\* Lines 644 and 649.
MeanValue(vals) == IF vals = <<>> THEN NotANumber ELSE Round(SumSeq(vals), Len(vals))

RECURSIVE MinSeq(_)
MinSeq(vals) ==
    IF vals = <<>> THEN Infinity ELSE Min2(Head(vals), MinSeq(Tail(vals)))

\* Line 654; the samples are whole numbers.
LowestValue(vals) == MinSeq(vals)

\* Lines 636-655: one entry per day, those with value > 0, by date.
DayValue(metric, vals) ==
    CASE metric = "heartRate" -> RestingHR(vals)
      [] metric \in {"hrv", "stress"} -> MeanValue(vals)
      [] metric = "oxygenSaturation" -> LowestValue(vals)

DailyValues(data, metric, yearInt) ==
    LET days == RecordDays(data[metric], yearInt)
        entries == [i \in 1..Len(days) |->
                       [date |-> days[i],
                        value |-> DayValue(metric, SamplesOn(data, metric, yearInt, days[i]))]]
    IN  SelectSeq(entries, LAMBDA d : d.value > 0)

ValuesOf(daily) == [i \in 1..Len(daily) |-> daily[i].value]

\* Lines 657-659.
AverageValue(daily) == IF Len(daily) > 0 THEN Round(SumSeq(ValuesOf(daily)), Len(daily)) ELSE 0

\* Line 660.
MinSpO2(dailySpO2Data) == IF Len(dailySpO2Data) > 0 THEN MinSeq(ValuesOf(dailySpO2Data)) ELSE 0

\* A quotient of whole numbers n / d, d > 0.
Ratio(n, d) == [n |-> n, d |-> d]

RatioGreater(a, b) == a.n * b.d > b.n * a.d

FirstCandidate(candidates, initial, key) ==
    IF Len(candidates) = 0 THEN initial ELSE candidates[1]

\* x.<key> > best.<key>; the sleep score is a mean, kept as a ratio.
Exceeds(x, best, key) ==
    IF key = "score" THEN RatioGreater(x.score, best.score) ELSE x[key] > best[key]

\* array.reduce((best, x) => x > best ? x : best, initial) for the order
\* of the field key: the first element that beats initial and that no other
\* such element beats; initial itself when none does.
FirstBest(candidates, initial, key) ==
    LET beating == {i \in 1..Len(candidates) : Exceeds(candidates[i], initial, key)}
        top == {i \in beating : \A j \in beating : ~Exceeds(candidates[j], candidates[i], key)}
    IN  IF beating = {} THEN initial ELSE candidates[Min(top)]

\* The date '' of the initial records of the reductions.
NoDate == [k |-> "none", t |-> 0]

\* s.update_time?.split(' ')[0] of line 551: the day of a date that parses,
\* else the field as it is (its first word, or undefined).
DateText(field) == IF field.k = "ok" THEN At(DayOf(field.t)) ELSE field

\* Lines 541-542, 980-981: calories; distance in hundredths of a kilometre.
TotalCalories(yearSteps) == SumSeq([i \in 1..Len(yearSteps) |-> yearSteps[i].calorie])

TotalDistance(yearSteps) == Round(SumSeq([i \in 1..Len(yearSteps) |-> yearSteps[i].distance]), 10)

\* Lines 789-792; now is the current date.
DaysInYear(yearInt, now) ==
    IF yearInt = now.year THEN now.days
    ELSE IF (yearInt % 4 = 0 /\ yearInt % 100 # 0) \/ yearInt % 400 = 0 THEN 366
    ELSE 365

\* Line 979.
DailyAvg(totalSteps, daysInYear) == Round(totalSteps, Max2(daysInYear, 1))

\* Lines 549-552.
BestDay(yearSteps) ==
    FirstBest([i \in 1..Len(yearSteps) |->
                  [count |-> yearSteps[i].count, date |-> DateText(yearSteps[i].update_time)]],
              [count |-> 0, date |-> NoDate],
              "count")

\* Lines 795-798.
MostStepsDay(yearSteps) ==
    FirstBest([i \in 1..Len(yearSteps) |->
                  [count |-> yearSteps[i].count, date |-> At(DayOf(StepDate(yearSteps[i]).t))]],
              [count |-> 0, date |-> NoDate],
              "count")

monthNames == <<"Jan", "Feb", "Mar", "Apr", "May", "Jun", "Jul", "Aug", "Sep", "Oct", "Nov", "Dec">>

\* The day of the year (from 0) on which each month starts.
MonthStarts(leap) ==
    IF leap THEN <<0, 31, 60, 91, 121, 152, 182, 213, 244, 274, 305, 335>>
    ELSE <<0, 31, 59, 90, 120, 151, 181, 212, 243, 273, 304, 334>>

\* monthNames[date.getMonth()] for an instant of 2023 or 2024.
MonthOf(t) ==
    LET day == DayOf(t)
        dayOfYear == IF day < 0 THEN day + 365 ELSE day
        starts == MonthStarts(day >= 0)
    IN  monthNames[Cardinality({m \in 1..12 : starts[m] <= dayOfYear})]

\* The distinct values of a sequence, by first appearance: the order of
\* the keys of an object filled in that order.
RECURSIVE FirstAppearances(_)
FirstAppearances(seq) ==
    IF seq = <<>> THEN <<>>
    ELSE LET front == FirstAppearances(SubSeq(seq, 1, Len(seq) - 1))
             last == seq[Len(seq)]
         IN  IF last \in Range(front) THEN front ELSE Append(front, last)

\* Lines 554-559 and 566-568.
BestMonth(yearSteps) ==
    LET months == FirstAppearances([i \in 1..Len(yearSteps) |-> MonthOf(StepDate(yearSteps[i]).t)])
        stepsIn(month) ==
            SumSeq([i \in 1..Len(yearSteps) |->
                       IF MonthOf(StepDate(yearSteps[i]).t) = month THEN yearSteps[i].count ELSE 0])
    IN  FirstBest([i \in 1..Len(months) |-> [name |-> months[i], steps |-> stepsIn(months[i])]],
                  [name |-> "", steps |-> 0],
                  "steps")

\* Lines 554-564: the steps of each of the twelve months, in calendar order.
MonthlyTrends(yearSteps) ==
    [m \in 1..12 |->
        [month |-> monthNames[m],
         steps |-> SumSeq([i \in 1..Len(yearSteps) |->
                              IF MonthOf(StepDate(yearSteps[i]).t) = monthNames[m]
                              THEN yearSteps[i].count ELSE 0])]]

\* Lines 937-938.
MostProductiveMonth(monthlyTrends) ==
    FirstBest(monthlyTrends, [month |-> "Jan", steps |-> 0], "steps").month

\* Lines 1062-1065: the steps of each month, summed over the years.
AllTimeMonthlyTrends(allYears) ==
    [m \in 1..12 |->
        [month |-> monthNames[m],
         steps |-> SumSeq([i \in 1..Len(allYears) |-> allYears[i].monthlyTrends[m].steps])]]

\* Records in the order of the date field; equal dates keep their order.
InsertByDate(sorted, x) ==
    LET before == Cardinality({i \in 1..Len(sorted) : sorted[i].date <= x.date})
    IN  SubSeq(sorted, 1, before) \o <<x>> \o SubSeq(sorted, before + 1, Len(sorted))

\* The entries inserted one after the other, from the first to the last;
\* the front is inserted before the rest (its length is never below half).
RECURSIVE InsertAllByDate(_, _)
InsertAllByDate(sorted, entries) ==
    IF entries = <<>> THEN sorted
    ELSE IF Len(entries) = 1 THEN InsertByDate(sorted, entries[1])
    ELSE LET half == Len(entries) \div 2
             front == InsertAllByDate(sorted, SubSeq(entries, 1, half))
         IN  IF Len(front) < half THEN front
             ELSE InsertAllByDate(front, SubSeq(entries, half + 1, Len(entries)))

SortByDate(entries) == InsertAllByDate(<<>>, entries)

\* Lines 1006-1009: one entry per step record of the year, by date.
DailyStepData(yearSteps) ==
    SortByDate([i \in 1..Len(yearSteps) |->
                   [date |-> DayOf(StepDate(yearSteps[i]).t), count |-> yearSteps[i].count]])

\* Lines 680-711: the year's workouts, latest first.  duration is in
\* minutes and distance in metres.
YearWorkouts(data, yearInt) ==
    LET es == RecordsOfYear(data.exercises, yearInt)
        workouts == [i \in 1..Len(es) |->
                        [type |-> es[i].exercise_type,
                         duration |-> es[i].duration,
                         calories |-> es[i].calorie,
                         distance |-> es[i].distance,
                         date |-> DayOf(es[i].start_time.t),
                         startTime |-> es[i].start_time.t]]
        latestFirst ==
            SortByDate([i \in 1..Len(es) |-> [date |-> 0 - workouts[i].startTime, w |-> workouts[i]]])
    IN  [i \in 1..Len(es) |-> latestFirst[i].w]

\* Lines 719-732.
DailyWorkoutData(yearWorkouts) ==
    LET dates == SortTimes(SetToSeq({yearWorkouts[i].date : i \in 1..Len(yearWorkouts)}))
        total(date, field) ==
            SumSeq([i \in 1..Len(yearWorkouts) |->
                       IF yearWorkouts[i].date = date THEN yearWorkouts[i][field] ELSE 0])
    IN  [i \in 1..Len(dates) |->
            [date |-> dates[i], duration |-> total(dates[i], "duration"),
             calories |-> total(dates[i], "calories"), distance |-> total(dates[i], "distance")]]

\* Lines 800-802.
LongestWorkout(yearWorkouts) ==
    FirstBest([i \in 1..Len(yearWorkouts) |->
                  [duration |-> yearWorkouts[i].duration, type |-> yearWorkouts[i].type,
                   date |-> At(yearWorkouts[i].date)]],
              [duration |-> 0, type |-> "", date |-> NoDate],
              "duration")

SumField(records, field) == SumSeq([i \in 1..Len(records) |-> records[i][field]])

RECURSIVE SumRatios(_)
SumRatios(ratios) ==
    IF ratios = <<>> THEN Ratio(0, 1)
    ELSE LET rest == SumRatios(Tail(ratios))
         IN  Ratio(Head(ratios).n * rest.d + rest.n * Head(ratios).d, Head(ratios).d * rest.d)

\* Lines 773-775, 782-784, 805, 1016: the mean of a list, 0 when it is empty.
MeanOrZero(values) == IF Len(values) > 0 THEN Ratio(SumSeq(values), Len(values)) ELSE Ratio(0, 1)

\* Lines 734-738: the year is that of the row's own start field.
SleepRecords(data, yearInt) ==
    SelectSeq(data.processedSleep, LAMBDA s : InYear(s.row.start, yearInt))

\* Lines 751-752: getUTCHours() * 60 + getUTCMinutes() of an instant.
MinuteOfDay(t) == t % MinutesPerDay

\* Lines 741-765: dailySleep, as its entries in the order in which the days
\* were first met.
DailySleep(sleepRecords) ==
    LET counted == SelectSeq(sleepRecords, LAMBDA s : s._duration > 0)
        days == FirstAppearances([i \in 1..Len(counted) |-> DayOf(counted[i]._start)])
        on(day) == SelectSeq(counted, LAMBDA s : DayOf(s._start) = day)
        positive(values) == SelectSeq(values, LAMBDA v : v > 0)
    IN  [i \in 1..Len(days) |->
            [date |-> days[i],
             duration |-> SumField(on(days[i]), "_duration"),
             efficiency |-> positive([j \in 1..Len(on(days[i])) |-> on(days[i])[j]._efficiency]),
             score |-> positive([j \in 1..Len(on(days[i])) |-> on(days[i])[j]._score]),
             bedTimes |-> [j \in 1..Len(on(days[i])) |-> MinuteOfDay(on(days[i])[j]._start)],
             wakeTimes |-> [j \in 1..Len(on(days[i])) |-> MinuteOfDay(on(days[i])[j]._end)]]]

\* Lines 771-787 with the Math.round of lines 988-989.
AverageOfDays(sleepDays, field) ==
    IF Len(sleepDays) > 0
    THEN LET total == SumRatios([i \in 1..Len(sleepDays) |-> MeanOrZero(sleepDays[i][field])])
         IN  Round(total.n, total.d * Len(sleepDays))
    ELSE 0

\* Line 888: the bedtime hour taken when no bedtime was recorded.
DefaultBedtimeHour == 23

\* Lines 771-777: avgEfficiency before it is rounded, as a quotient.
AvgEfficiency(sleepDays) ==
    IF Len(sleepDays) > 0
    THEN LET total == SumRatios([i \in 1..Len(sleepDays) |-> MeanOrZero(sleepDays[i].efficiency)])
         IN  Ratio(total.n, total.d * Len(sleepDays))
    ELSE Ratio(0, 1)

\* Line 887: the hour of every bedtime of the year, day after day.
BedtimeHours(dailySleep) ==
    LET bedTimes == FlattenSeq([i \in 1..Len(dailySleep) |-> dailySleep[i].bedTimes])
    IN  [i \in 1..Len(bedTimes) |-> bedTimes[i] \div 60]

\* Line 888: the mean bedtime hour, 23 when there is no bedtime.
AvgBedtimeHour(bedtimeHours) ==
    IF Len(bedtimeHours) > 0 THEN Ratio(SumSeq(bedtimeHours), Len(bedtimeHours))
    ELSE Ratio(DefaultBedtimeHour, 1)

\* Lines 889-892.
SleepArchetype(dailySleep) ==
    LET avgBedtimeHour == AvgBedtimeHour(BedtimeHours(dailySleep))
    IN  IF RatioGreater(AvgEfficiency(dailySleep), Ratio(85, 1)) THEN "Consistent Sleeper"
        ELSE IF RatioGreater(avgBedtimeHour, Ratio(23, 1)) THEN "Night Owl"
        ELSE IF RatioGreater(Ratio(22, 1), avgBedtimeHour) THEN "Early Riser"
        ELSE "Variable"

\* Lines 804-807.
BestSleepScore(dailySleep) ==
    FirstBest([i \in 1..Len(dailySleep) |->
                  [score |-> MeanOrZero(dailySleep[i].score), date |-> At(dailySleep[i].date)]],
              [score |-> Ratio(0, 1), date |-> NoDate],
              "score")

\* Lines 1010-1013; duration stays in hundredths of a minute.
DailySleepData(dailySleep) ==
    SortByDate([i \in 1..Len(dailySleep) |->
                   [date |-> dailySleep[i].date, duration |-> dailySleep[i].duration]])

\* Lines 1014-1017.
DailySleepScoreData(dailySleep) ==
    SortByDate([i \in 1..Len(dailySleep) |->
                   [date |-> dailySleep[i].date, score |-> MeanOrZero(dailySleep[i].score)]])

\* getHours() and getDay() of an instant, the ambient time zone being UTC;
\* 1 January 2024 is a Monday, and getDay() of a Sunday is 0.
HourOf(t) == (t % MinutesPerDay) \div 60

WeekDayOf(t) == (DayOf(t) + 1) % 7

GrinderSessions == 150

\* Lines 873-876; the mean hour is compared as sum against 10 and 17 times
\* the number of workouts.
FitnessType(yearWorkouts) ==
    LET workoutHours == [i \in 1..Len(yearWorkouts) |-> HourOf(yearWorkouts[i].startTime)]
        total == SumSeq(workoutHours)
        n == Len(workoutHours)
    IN  IF n = 0 THEN "Balanced"
        ELSE IF total < 10 * n THEN "Early Bird"
        ELSE IF total > 17 * n THEN "Night Owl"
        ELSE "Balanced"

WorkoutStyleFrom150(yearWorkouts) ==
    LET weekendWorkouts == Len(SelectSeq(yearWorkouts, LAMBDA w : WeekDayOf(w.startTime) \in {0, 6}))
        weekdayWorkouts == Len(yearWorkouts) - weekendWorkouts
    IN  IF 2 * weekendWorkouts > 3 * weekdayWorkouts THEN "Weekend Warrior"
        ELSE IF Len(yearWorkouts) >= GrinderSessions THEN "Consistent Grinder"
        ELSE "Casual"

\* Lines 878-885: weekendWorkouts > weekdayWorkouts * 1.5.
WorkoutStyle(yearWorkouts) ==
    LET weekendWorkouts == Len(SelectSeq(yearWorkouts, LAMBDA w : WeekDayOf(w.startTime) \in {0, 6}))
        weekdayWorkouts == Len(yearWorkouts) - weekendWorkouts
    IN  IF 2 * weekendWorkouts > 3 * weekdayWorkouts THEN "Weekend Warrior"
        ELSE IF Len(yearWorkouts) > GrinderSessions THEN "Consistent Grinder"
        ELSE "Casual"

\* Lines 942-948: sleepDays is Object.values(dailySleep), the days in the
\* order in which they were first met.  The means are compared as
\* quotients: second > first * 1.05 and second < first * 0.95.
SleepQualityTrend(sleepDays) ==
    LET half == Len(sleepDays) \div 2
        firstHalfSleep == SubSeq(sleepDays, 1, half)
        secondHalfSleep == SubSeq(sleepDays, half + 1, Len(sleepDays))
        firstHalfAvg == IF Len(firstHalfSleep) > 0
                        THEN Ratio(SumField(firstHalfSleep, "duration"), Len(firstHalfSleep))
                        ELSE Ratio(0, 1)
        secondHalfAvg == IF Len(secondHalfSleep) > 0
                         THEN Ratio(SumField(secondHalfSleep, "duration"), Len(secondHalfSleep))
                         ELSE Ratio(0, 1)
    IN  IF RatioGreater(Ratio(secondHalfAvg.n * 100, secondHalfAvg.d),
                        Ratio(firstHalfAvg.n * 105, firstHalfAvg.d)) THEN "improving"
        ELSE IF RatioGreater(Ratio(firstHalfAvg.n * 95, firstHalfAvg.d),
                             Ratio(secondHalfAvg.n * 100, secondHalfAvg.d)) THEN "declining"
        ELSE "stable"

\* Lines 976-1037, the fields modelled.
YearStatsOf(data, yearInt, now) ==
    LET yearSteps == YearSteps(data, yearInt)
        dailyHRData == DailyValues(data, "heartRate", yearInt)
        dailyHRVData == DailyValues(data, "hrv", yearInt)
        dailyStressData == DailyValues(data, "stress", yearInt)
        dailySpO2Data == DailyValues(data, "oxygenSaturation", yearInt)
        yearWorkouts == YearWorkouts(data, yearInt)
        dailySleep == DailySleep(SleepRecords(data, yearInt))
    IN  [year |-> ToString(yearInt),
         totalSteps |-> TotalSteps(yearSteps),
         dailyAvg |-> DailyAvg(TotalSteps(yearSteps), DaysInYear(yearInt, now)),
         totalCalories |-> TotalCalories(yearSteps),
         totalDistance |-> TotalDistance(yearSteps),
         bestDay |-> BestDay(yearSteps),
         bestMonth |-> BestMonth(yearSteps),
         totalWorkouts |-> Len(RecordsOfYear(data.exercises, yearInt)),
         dailyStepData |-> DailyStepData(yearSteps),
         workouts |-> yearWorkouts,
         totalWorkoutDuration |-> SumField(yearWorkouts, "duration"),
         totalWorkoutCalories |-> SumField(yearWorkouts, "calories"),
         totalWorkoutDistance |-> SumField(yearWorkouts, "distance"),
         dailyWorkoutData |-> DailyWorkoutData(yearWorkouts),
         avgEfficiency |-> AverageOfDays(dailySleep, "efficiency"),
         avgSleepScore |-> AverageOfDays(dailySleep, "score"),
         dailySleepData |-> DailySleepData(dailySleep),
         dailySleepScoreData |-> DailySleepScoreData(dailySleep),
         bestSleepScore |-> BestSleepScore(dailySleep),
         mostStepsDay |-> MostStepsDay(yearSteps),
         longestWorkout |-> LongestWorkout(yearWorkouts),
         avgRestingHR |-> AverageValue(dailyHRData),
         avgHRV |-> AverageValue(dailyHRVData),
         avgStress |-> AverageValue(dailyStressData),
         minSpO2 |-> MinSpO2(dailySpO2Data),
         dailyHRData |-> dailyHRData,
         dailyHRVData |-> dailyHRVData,
         dailyStressData |-> dailyStressData,
         dailySpO2Data |-> dailySpO2Data,
         longestStreak |-> LongestStreak(yearSteps),
         sleepQualityTrend |-> SleepQualityTrend(dailySleep),
         fitnessType |-> FitnessType(yearWorkouts),
         workoutStyle |-> WorkoutStyle(yearWorkouts),
         sleepArchetype |-> SleepArchetype(dailySleep),
         monthlyTrends |-> MonthlyTrends(yearSteps),
         mostProductiveMonth |-> MostProductiveMonth(MonthlyTrends(yearSteps))]

LastOfYears(allYears, field) == allYears[Len(allYears)][field]

\* allYears.reduce((sum, y) => sum + y.<field>, 0).
SumOfYears(allYears, field) == SumSeq([i \in 1..Len(allYears) |-> allYears[i][field]])

\* Math.round(allYears.reduce(...) / allYears.length).
MeanOfYears(allYears, field) == Round(SumOfYears(allYears, field), Len(allYears))

\* allYears.flatMap(y => y.<field>).sort(by date).
MergedByDate(allYears, field) ==
    SortByDate(FlattenSeq([i \in 1..Len(allYears) |-> allYears[i][field]]))

\* allYears.reduce((best, y) => y.<field>.<key> > best.<key> ? y.<field> : best, initial).
BestOfYears(allYears, field, initial, key) ==
    FirstBest([i \in 1..Len(allYears) |-> allYears[i][field]], initial, key)

\* Line 1092.
AllTimeMinSpO2(allYears) ==
    MinSeq(SelectSeq([i \in 1..Len(allYears) |-> allYears[i].minSpO2], LAMBDA v : v > 0))

\* Lines 1053-1153, the fields modelled; allYears is never empty here.
AllTimeStats(allYears) ==
    [year |-> AllTime,
     totalSteps |-> SumOfYears(allYears, "totalSteps"),
     dailyAvg |-> MeanOfYears(allYears, "dailyAvg"),
     totalCalories |-> SumOfYears(allYears, "totalCalories"),
     totalDistance |-> SumOfYears(allYears, "totalDistance"),
     bestDay |-> BestOfYears(allYears, "bestDay", [count |-> 0, date |-> NoDate],
                             "count"),
     bestMonth |-> BestOfYears(allYears, "bestMonth", [name |-> "", steps |-> 0],
                               "steps"),
     avgEfficiency |-> MeanOfYears(allYears, "avgEfficiency"),
     avgSleepScore |-> MeanOfYears(allYears, "avgSleepScore"),
     totalWorkouts |-> SumOfYears(allYears, "totalWorkouts"),
     avgRestingHR |-> MeanOfYears(allYears, "avgRestingHR"),
     avgHRV |-> MeanOfYears(allYears, "avgHRV"),
     avgStress |-> MeanOfYears(allYears, "avgStress"),
     minSpO2 |-> AllTimeMinSpO2(allYears),
     dailyHRData |-> MergedByDate(allYears, "dailyHRData"),
     dailyHRVData |-> MergedByDate(allYears, "dailyHRVData"),
     dailyStressData |-> MergedByDate(allYears, "dailyStressData"),
     dailySpO2Data |-> MergedByDate(allYears, "dailySpO2Data"),
     dailyStepData |-> MergedByDate(allYears, "dailyStepData"),
     dailySleepData |-> MergedByDate(allYears, "dailySleepData"),
     workouts |-> LET all == FlattenSeq([i \in 1..Len(allYears) |-> allYears[i].workouts])
                      latestFirst == SortByDate([i \in 1..Len(all) |->
                                                    [date |-> 0 - all[i].startTime, w |-> all[i]]])
                  IN  [i \in 1..Len(all) |-> latestFirst[i].w],
     totalWorkoutDuration |-> SumOfYears(allYears, "totalWorkoutDuration"),
     totalWorkoutCalories |-> SumOfYears(allYears, "totalWorkoutCalories"),
     totalWorkoutDistance |-> SumOfYears(allYears, "totalWorkoutDistance"),
     dailyWorkoutData |-> MergedByDate(allYears, "dailyWorkoutData"),
     dailySleepScoreData |-> MergedByDate(allYears, "dailySleepScoreData"),
     mostStepsDay |-> BestOfYears(allYears, "mostStepsDay", [count |-> 0, date |-> NoDate],
                                  "count"),
     longestWorkout |-> BestOfYears(allYears, "longestWorkout",
                                    [duration |-> 0, type |-> "", date |-> NoDate],
                                    "duration"),
     bestSleepScore |-> BestOfYears(allYears, "bestSleepScore",
                                    [score |-> Ratio(0, 1), date |-> NoDate],
                                    "score"),
     longestStreak |-> Max({0} \cup {allYears[i].longestStreak : i \in 1..Len(allYears)}),
     sleepQualityTrend |-> allYears[Len(allYears)].sleepQualityTrend,
     fitnessType |-> allYears[Len(allYears)].fitnessType,
     workoutStyle |-> allYears[Len(allYears)].workoutStyle,
     sleepArchetype |-> allYears[Len(allYears)].sleepArchetype,
     monthlyTrends |-> AllTimeMonthlyTrends(allYears),
     mostProductiveMonth |-> allYears[Len(allYears)].mostProductiveMonth]

\* Lines 489-520 for these data: the years, ascending.
StatsYears(data) == SortTimes(SetToSeq(DiscoveredYears(data, data.processedSleep)))

\* The loop of line 530: the YearStats of the years, in their order.
RECURSIVE YearStatsFrom(_, _, _)
YearStatsFrom(data, years, now) ==
    IF years = <<>> THEN <<>>
    ELSE <<YearStatsOf(data, Head(years), now)>> \o YearStatsFrom(data, Tail(years), now)

\* Lines 528-1156: the record returned, keyed by year and 'All Time'.
Statistics(data, now) ==
    LET years == StatsYears(data)
        allYears == YearStatsFrom(data, years, now)
    IN  IF years = <<>> THEN [k \in {} |-> 0]
        ELSE [k \in ResultKeys(Range(years)) |->
                 IF k = AllTime THEN AllTimeStats(allYears)
                 ELSE allYears[CHOOSE i \in 1..Len(years) : ToString(years[i]) = k]]

(***************************************************************************)
(* The data the statistics are checked on: one list at a time.             *)
(***************************************************************************)
MaxStreakRows == 4

MaxStepRows == 3

StepRow(t, count, source_type) ==
    [day_time |-> At(t), update_time |-> At(t), count |-> count, source_type |-> source_type,
     calorie |-> 7, distance |-> 1234]

\* Midnights of 1, 2, 3 and 5 Jan 2024, and 3 Jan 00:01.
StreakTimes == {d * MinutesPerDay : d \in {0, 1, 2, 4}} \cup {2 * MinutesPerDay + 1}

StreakData ==
    {[NoHealthData EXCEPT !.steps = rows] :
        rows \in SeqsUpTo({StepRow(t, 100, "-2") : t \in StreakTimes}, MaxStreakRows)}

\* Step records of 31 Dec 2023, 1 Jan 2024 and 1 Feb 2024; one of them is
\* from a source that is not counted.
StepRows ==
    {StepRow(0 - MinutesPerDay, 100, ""), StepRow(0 - MinutesPerDay, 300, ""),
     StepRow(0, 100, ""), StepRow(0, 300, ""), StepRow(31 * MinutesPerDay, 200, ""),
     StepRow(0, 300, "0")}

StepTotalsData == {[NoHealthData EXCEPT !.steps = rows] : rows \in SeqsUpTo(StepRows, MaxStepRows)}

MaxRecords == 2

\* 31 Dec 2023 23:30, 1 Jan 2024 10:00 and 11:00.
RecordTimes == {0 - 30, 600, 660}

ExerciseRow(t, type, duration, distance) ==
    [start_time |-> At(t), exercise_type |-> type, duration |-> duration, calorie |-> 200,
     distance |-> distance]

ExerciseData ==
    {[NoHealthData EXCEPT !.exercises = rows] :
        rows \in SeqsUpTo({ExerciseRow(t, w[1], w[2], w[3]) :
                              t \in RecordTimes,
                              w \in {<<"Running", 30, 5000>>, <<"Walking", 60, 0>>, <<"Cycling", 60, 9000>>}},
                          MaxRecords)}

Repeated(x, n) == [i \in 1..n |-> x]

\* Weekday workouts: Monday 1 January 2024 at 09:00, 10:00, 17:00, 18:00.
\* Weekend workouts: Saturday 6 January at 09:00 and 18:00.
WeekdayTimes == {540, 600, 1020, 1080}

WeekendTimes == {5 * MinutesPerDay + 540, 5 * MinutesPerDay + 1080}

\* How many workouts of each kind a year has: a few, and the numbers
\* around the 150 sessions and around one and a half times as many.
SessionCounts ==
    {<<a, b>> : a \in 0..3, b \in 0..4}
    \cup {<<GrinderSessions, 0>>, <<GrinderSessions + 1, 0>>, <<GrinderSessions - 1, 2>>,
          <<60, 90>>, <<60, 91>>}

PersonalityData ==
    {[NoHealthData EXCEPT !.exercises =
          Repeated(ExerciseRow(ta, "Running", 30, 5000), n[1])
          \o Repeated(ExerciseRow(tb, "Walking", 60, 0), n[2])] :
        ta \in WeekdayTimes, tb \in WeekendTimes, n \in SessionCounts}

\* A kept session: a nap of an hour or a night of eight hours.
SleepSession(t, minutes, efficiency, score) ==
    [row |-> [start |-> At(t)], _start |-> t, _end |-> t + minutes, _duration |-> minutes * 100,
     _efficiency |-> efficiency, _score |-> score]

\* Sessions of 31 Dec 2023 14:00, 1 Jan 2024 00:30, 1 Jan 2024 14:00 and
\* 2 Jan 2024 00:30.
SleepSessions ==
    {SleepSession(x[1], x[2], q[1], q[2]) :
        x \in {<<0 - 600, 60>>, <<30, 480>>, <<840, 60>>, <<MinutesPerDay + 30, 480>>},
        q \in {<<0, 0>>, <<85, 70>>, <<90, 80>>, <<90, 70>>}}

\* The order the dedup leaves: longest first, and no two of the same time.
IsKeptOrder(sessions) ==
    \A i, j \in 1..Len(sessions) :
        i < j => /\ sessions[i]._duration >= sessions[j]._duration
                 /\ sessions[i]._start # sessions[j]._start

SleepData ==
    {[NoHealthData EXCEPT !.processedSleep = rows] :
        rows \in {r \in SeqsUpTo(SleepSessions, MaxRecords) : IsKeptOrder(r)}}

\* A kept session of a row with a time offset: the row's start field is
\* the UTC instant t, and _start and _end are shifted by the offset.
ShiftedSession(t, offset, minutes) ==
    [row |-> [start |-> At(t)], _start |-> t + offset, _end |-> t + offset + minutes,
     _duration |-> minutes * 100, _efficiency |-> 90, _score |-> 80]

\* Nights that begin at 31 Dec 2023 23:00 UTC, at +05:30 (1 Jan 04:30
\* local), and at 1 Jan 2024 00:30 UTC, at -05:00 (31 Dec 19:30 local);
\* and naps without an offset in either year.
ShiftedSessions ==
    {ShiftedSession(0 - 60, 330, 480), ShiftedSession(30, 0 - 300, 480),
     SleepSession(0 - 600, 60, 90, 80), SleepSession(840, 60, 90, 80)}

ShiftedSleepData ==
    {[NoHealthData EXCEPT !.processedSleep = rows] :
        rows \in {r \in SeqsUpTo(ShiftedSessions, MaxRecords) : IsKeptOrder(r)}}

\* Nights of three evenings of January 2024, gone to bed at 21:30, 22:30,
\* 23:30 and 23:59, of an efficiency of 80 or 90.
Bedtimes == {21 * 60 + 30, MinutesPerDay + 22 * 60 + 30, 2 * MinutesPerDay + 23 * 60 + 30,
             3 * MinutesPerDay + 23 * 60 + 59}

BedtimeSessions == {SleepSession(t, 420, e, 0) : t \in Bedtimes, e \in {80, 90}}

BedtimeData ==
    {[NoHealthData EXCEPT !.processedSleep = rows] :
        rows \in {r \in SeqsUpTo(BedtimeSessions, MaxRecords) : IsKeptOrder(r)}}

\* The bins of the archive: a.json holds three, one of them without
\* values, and e.json holds none.
Bins ==
    [n \in {"a.json", "e.json"} |->
        IF n = "a.json"
        THEN <<[heart_rate |-> 55, score |-> 30, rmssd |-> 41],
               [heart_rate |-> 0, score |-> 0, rmssd |-> 0],
               [heart_rate |-> 61, score |-> 35, rmssd |-> 48]>>
        ELSE <<>>]

HRRow(t, heart_rate, binning_data) ==
    [start_time |-> At(t), heart_rate |-> heart_rate, binning_data |-> binning_data, prefixed |-> ""]

HeartRateData ==
    {[NoHealthData EXCEPT !.heartRate = rows, !.binningData = Bins] :
        rows \in SeqsUpTo({HRRow(t, v[1], v[2]) :
                              t \in RecordTimes,
                              v \in {<<60, "">>, <<72, "">>, <<Blank, "">>, <<60, "a.json">>}},
                          MaxRecords)}

HRVData ==
    {[NoHealthData EXCEPT !.hrv = rows, !.binningData = Bins] :
        rows \in SeqsUpTo({[start_time |-> At(t), binning_data |-> b] :
                              t \in RecordTimes, b \in {"", "a.json", "e.json"}},
                          MaxRecords)}

StressRow(t, score, stress, binning_data, prefixed) ==
    [start_time |-> At(t), score |-> score, stress |-> stress, binning_data |-> binning_data,
     prefixed |-> prefixed]

\* Stress and SpO2 records do not make a year known: step records of
\* 31 Dec 2023 and 1 Jan 2024 do.
StepsOfBothYears == <<StepRow(0 - MinutesPerDay, 100, ""), StepRow(0, 100, "")>>

StressData ==
    {[NoHealthData EXCEPT !.stress = rows, !.binningData = Bins, !.steps = StepsOfBothYears] :
        rows \in SeqsUpTo({StressRow(t, v[1], v[2], v[3], v[4]) :
                              t \in RecordTimes,
                              v \in {<<40, Blank, "", "">>, <<51, 51, "", "">>,
                                     <<Blank, 42, "", "">>, <<Blank, Blank, "", "">>,
                                     <<Blank, Blank, "a.json", "">>, <<40, Blank, "gone.json", "a.json">>}},
                          MaxRecords)}

SpO2Data ==
    {[NoHealthData EXCEPT !.oxygenSaturation = rows, !.steps = StepsOfBothYears] :
        rows \in SeqsUpTo({[start_time |-> At(t), spo2 |-> v] :
                              t \in RecordTimes, v \in {Blank, 93, 97}},
                          MaxRecords)}

\* The current date: its year and the whole days since 1 January.
Todays == {[year |-> 2024, days |-> 0], [year |-> 2024, days |-> 100], [year |-> 2026, days |-> 304]}

InitStats ==
    /\ \/ healthData \in StepTotalsData /\ today \in Todays
       \/ /\ healthData \in StreakData \cup ExerciseData \cup SleepData \cup HeartRateData
                             \cup HRVData \cup StressData \cup SpO2Data \cup PersonalityData
                             \cup ShiftedSleepData \cup BedtimeData
          /\ today = [year |-> 2026, days |-> 304]
    /\ statsResult = <<>>
    /\ statsPc = "call"
    /\ IdleSplit
    /\ IdleCsv
    /\ IdleApp
    /\ IdleZip
    /\ IdleMath
    /\ IdleWrapped

TransformHealthData ==
    /\ statsPc = "call"
    /\ statsResult' = Statistics(healthData, today)
    /\ statsPc' = "returned"
    /\ UNCHANGED <<healthData, today, splitVars, csvVars, appVars, zipVars, mathVars, wrappedVars>>

NextStats == TransformHealthData

SpecStats == InitStats /\ [][NextStats]_vars

(***************************************************************************)
(* The Wrapped story (App.tsx 1211-1498).  WrappedView is mounted while    *)
(* activeView is 'wrapped' (App.tsx 557) and starts at slide 0 whenever it *)
(* is mounted.  slideClick records the control clicked last, for a dot     *)
(* its index, and the slide shown when it was clicked.                     *)
(***************************************************************************)
ViewType == {"overview", "workouts", "sleep", "wellness", "insights", "wrapped"}

\* The titles of the array of App.tsx 1215-1445.
slides ==
    <<"Your Journey", "Your Fitness Personality", "Your Workout Style", "Steps Conquered",
      "Distance Traveled", "Calories Burned", "Your Power Day", "Peak Performance Time",
      "Consistency King", "Sleep Story", "Peak Month", "Keep Going">>

Successor(i) == i + 1

\* Line 1469.
PreviousIndex(i) == Max2(0, i - 1)

\* Line 1476.
NextIndex(i) == Min2(Len(slides) - 1, i + 1)

InitWrapped ==
    /\ IdleWrapped
    /\ IdleSplit
    /\ IdleCsv
    /\ IdleApp
    /\ IdleZip
    /\ IdleMath
    /\ IdleStats

\* A menu item is clicked (App.tsx 464); the view that was shown unmounts.
SetActiveView ==
    /\ \E item \in ViewType : activeView' = item
    /\ activeSlide' = 0
    /\ slideClick' = NoClick
    /\ UNCHANGED <<splitVars, csvVars, appVars, zipVars, mathVars, statsVars>>

\* The handler of the left button (App.tsx 1468-1470).
PreviousSlide ==
    /\ activeView = "wrapped"
    /\ activeSlide' = PreviousIndex(activeSlide)
    /\ slideClick' = [kind |-> "previous", idx |-> 0, from |-> activeSlide]
    /\ UNCHANGED <<activeView, splitVars, csvVars, appVars, zipVars, mathVars, statsVars>>

\* The handler of the right button (App.tsx 1475-1477).
NextSlide ==
    /\ activeView = "wrapped"
    /\ activeSlide' = NextIndex(activeSlide)
    /\ slideClick' = [kind |-> "next", idx |-> 0, from |-> activeSlide]
    /\ UNCHANGED <<activeView, splitVars, csvVars, appVars, zipVars, mathVars, statsVars>>

\* A progress dot (App.tsx 1486-1489): one per slide.
ProgressDot ==
    /\ activeView = "wrapped"
    /\ \E idx \in 0..(Len(slides) - 1) :
        /\ activeSlide' = idx
        /\ slideClick' = [kind |-> "dot", idx |-> idx, from |-> activeSlide]
    /\ UNCHANGED <<activeView, splitVars, csvVars, appVars, zipVars, mathVars, statsVars>>

NextWrapped == SetActiveView \/ PreviousSlide \/ NextSlide \/ ProgressDot

SpecWrapped == InitWrapped /\ [][NextWrapped]_vars

(***************************************************************************)
(* Claims.                                                                 *)
(***************************************************************************)
QuotesBefore(l, i) == Cardinality({j \in 1..(i - 1) : l[j] = Quote})

\* Commas that lie outside quoted text.
UnquotedCommas(l) ==
    Cardinality({i \in 1..Len(l) : l[i] = Comma /\ QuotesBefore(l, i) % 2 = 0})

\* The line holds a doubled quote inside quoted text.
HasEscapedQuote(l) ==
    \E i \in 1..(Len(l) - 1) :
        l[i] = Quote /\ l[i + 1] = Quote /\ QuotesBefore(l, i) % 2 = 1

\* A comma inside a quoted field does not split the field.
SplitKeepsQuotedCommas ==
    splitPc = "done" =>
        /\ Len(fields) = 1 + UnquotedCommas(line)
        /\ (line = LineQuotedComma =>
                fields = << <<"a">>, <<"b", Comma, "c">>, <<"d">> >>)

\* C1: splitCSVLine keeps a comma inside a quoted field in the field, and
\* collapses a doubled quote inside quoted text to one literal quote, so that
\* a,"b,c",d gives [a] [b,c] [d] and "he said ""hi""" gives he said "hi".
C1_QuoteAwareSplit ==
    /\ SplitKeepsQuotedCommas
    /\ splitPc = "done" =>
        /\ (HasEscapedQuote(line) => \E f \in 1..Len(fields) : Quote \in Range(fields[f]))
        /\ (line = LineEscapedQuote =>
                fields = << <<"h", "e", " ", "s", "a", "i", "d", " ", Quote, "h", "i", Quote>> >>)

\* Column count and keyword test of a line, stated without the splitter.
ColumnCount(l) == 1 + UnquotedCommas(l)

MentionsKeyword(l) ==
    \E kw \in HeaderKeywords : \E k \in 0..(Len(l) - Len(kw)) :
        \A j \in 1..Len(kw) : ToLowerChar(l[k + j]) = kw[j]

QualifyingLines(lines) ==
    {i \in 1..Len(lines) :
        i <= HeaderScanLimit /\ ColumnCount(lines[i]) > MinHeaderColumns /\ MentionsKeyword(lines[i])}

\* The data lines after line h that are not blank and have at least as many
\* columns as line h.
AcceptedAfter(lines, h) ==
    {i \in (h + 1)..Len(lines) :
        Trim(lines[i]) # <<>> /\ ColumnCount(Trim(lines[i])) >= ColumnCount(lines[h])}

StepHeaderNames ==
    { <<"D", "a", "t", "e">>, <<"C", "o", "u", "n", "t">>,
      <<"C", "a", "l", "o", "r", "i", "e">>,
      <<"D", "i", "s", "t", "a", "n", "c", "e">>,
      <<"S", "p", "e", "e", "d">>, <<"S", "o", "u", "r", "c", "e">> }

ThreeJunkThenStepHeader ==
    /\ Len(csvText) > 4
    /\ SubSeq(csvText, 1, 4) = <<LineMeta, LineMeta, LineMeta, LineStepHeader>>

\* C8: among at most the first 12 lines the header is the first line with
\* more than 5 fields whose lowercase text holds a keyword; the lines up to
\* the header give no records and every record is keyed by the header's
\* names.  After 3 junk lines and Date,Count,Calorie,Distance,Speed,Source
\* the header is the 4th line and the records are keyed by those six names.
C8_HeaderDetection ==
    (csvPc = "done" /\ Len(csvText) >= 2 /\ QualifyingLines(csvText) # {}) =>
        LET h == Min(QualifyingLines(csvText))
        IN  /\ csvHeader = h
            /\ Len(csvResult) = Cardinality(AcceptedAfter(csvText, h))
            /\ \A r \in 1..Len(csvResult) :
                   DOMAIN csvResult[r] = Range(splitCSVLine(csvText[h]))
            /\ ThreeJunkThenStepHeader =>
                   /\ h = 4
                   /\ \A r \in 1..Len(csvResult) : DOMAIN csvResult[r] = StepHeaderNames

C8_Witness ==
    /\ csvPc = "done"
    /\ csvText = <<LineMeta, LineMeta, LineMeta, LineStepHeader, LineRow6, LineRow7>>
    /\ csvHeader = 4
    /\ Len(csvResult) = 2

\* The positions, in the sorted candidate list, of the candidates dedup kept.
KeptPositions ==
    {i \in 1..Len(enrichedSleep) :
        \E k \in 1..Len(keptSleep) : keptSleep[k].idx = enrichedSleep[i].idx}

\* Minutes shared by the ranges [_start, _end) of two candidates.
SharedMinutes(a, b) ==
    LET lo == IF a._start > b._start THEN a._start ELSE b._start
        hi == IF a._end < b._end THEN a._end ELSE b._end
    IN  IF hi > lo THEN hi - lo ELSE 0

\* C2 as stated: a combined candidate whose range overlaps at least 80% of a
\* non-combined candidate's range is kept and the non-combined one is not.
C2_CombinedWinsAtLeast80 ==
    uploadPc = "returned" =>
        \A i, j \in 1..Len(enrichedSleep) :
            LET c == enrichedSleep[i]
                n == enrichedSleep[j]
            IN  (c._isCombined /\ ~n._isCombined /\ n._end > n._start
                 /\ SharedMinutes(c, n) * 10 >= 8 * (n._end - n._start))
                => (i \in KeptPositions /\ j \notin KeptPositions)

\* C2 amended: a kept combined candidate whose range shares more than 80% of
\* a non-combined candidate's asleep duration with that candidate's range
\* removes it: the non-combined candidate is not kept.
C2_KeptCombinedWinsAbove80 ==
    uploadPc = "returned" =>
        \A i, j \in 1..Len(enrichedSleep) :
            LET c == enrichedSleep[i]
                n == enrichedSleep[j]
            IN  (c._isCombined /\ ~n._isCombined /\ i \in KeptPositions
                 /\ SharedMinutes(c, n) * 1000 > 8 * n._duration)
                => j \notin KeptPositions

\* A combined session covers all of a shorter non-combined one, which is dropped.
C2_Witness ==
    /\ uploadPc = "returned"
    /\ Len(enrichedSleep) = 2
    /\ Len(keptSleep) = 1
    /\ enrichedSleep[1]._isCombined
    /\ ~enrichedSleep[2]._isCombined
    /\ SharedMinutes(enrichedSleep[1], enrichedSleep[2]) * 1000 > 8 * enrichedSleep[2]._duration

\* C3: the candidates are processed combined-source first, then by descending
\* asleep duration; a candidate is accepted exactly when no accepted
\* candidate before it shares more than 80% of the candidate's own asleep
\* duration with its range; the kept list is the accepted candidates, in
\* processing order.
C3_GreedyDedup ==
    uploadPc = "returned" =>
        /\ \A i, j \in 1..Len(enrichedSleep) :
               i < j =>
                   /\ (enrichedSleep[j]._isCombined => enrichedSleep[i]._isCombined)
                   /\ (enrichedSleep[i]._isCombined = enrichedSleep[j]._isCombined
                       => enrichedSleep[i]._duration >= enrichedSleep[j]._duration)
        /\ \A i \in 1..Len(enrichedSleep) :
               i \in KeptPositions <=>
                   ~\E k \in KeptPositions :
                       /\ k < i
                       /\ SharedMinutes(enrichedSleep[i], enrichedSleep[k]) * 1000
                              > 8 * enrichedSleep[i]._duration
        /\ Len(keptSleep) = Cardinality(KeptPositions)
        /\ \A k \in 1..Len(keptSleep) : \E i \in KeptPositions : keptSleep[k] = enrichedSleep[i]
        /\ \A k, m \in 1..Len(keptSleep) :
               k < m =>
                   \E i, j \in KeptPositions :
                       i < j /\ keptSleep[k] = enrichedSleep[i] /\ keptSleep[m] = enrichedSleep[j]

\* Three candidates: the first accepted, the second rejected because of it,
\* the third accepted although the rejected second covers all of it.
C3_Witness ==
    /\ uploadPc = "returned"
    /\ Len(enrichedSleep) = 3
    /\ KeptPositions = {1, 3}
    /\ SharedMinutes(enrichedSleep[3], enrichedSleep[2]) * 1000 > 8 * enrichedSleep[3]._duration

\* The resolved rawDuration of a row, in minutes, from the row's fields.
RowSpan(s) == s["end"].t - s.start.t

RowRawDuration(s) ==
    LET field == IF s.dur > 1440 THEN s.dur \div 60000 ELSE s.dur
    IN  IF field = 0 THEN RowSpan(s) ELSE field

RowEfficiency(s) == IF s.eff = 1 THEN 100 ELSE s.eff

\* A parseable start and a valid end after it.
HasValidEnd(s) == s.start.k = "ok" /\ s["end"].k = "ok" /\ s["end"].t > s.start.t

\* C4: for a row with a parseable start and a valid end after it, the asleep
\* time is rawDuration when the file is a combined one; otherwise it is
\* rawDuration * efficiency / 100 when the span end - start is less than 5
\* minutes from rawDuration and 0 < efficiency < 100, and rawDuration when
\* not.  Span 480, rawDuration 480, efficiency 90 give 432 minutes; a
\* combined row with rawDuration 420 gives 420 minutes.  (_duration is in
\* hundredths of a minute.)
C4_AsleepTime ==
    uploadPc = "returned" =>
        /\ \A i \in 1..Len(rawData.sleep) :
               HasValidEnd(rawData.sleep[i]) =>
                   \E k \in 1..Len(enrichedSleep) : enrichedSleep[k].idx = i
        /\ \A k \in 1..Len(enrichedSleep) :
               LET s == enrichedSleep[k].row
                   raw == RowRawDuration(s)
                   eff == RowEfficiency(s)
                   near == RowSpan(s) - raw < 5 /\ raw - RowSpan(s) < 5
               IN  HasValidEnd(s) =>
                       /\ enrichedSleep[k]._duration =
                              (IF s.combined THEN raw * 100
                               ELSE IF near /\ 0 < eff /\ eff < 100 THEN raw * eff
                               ELSE raw * 100)
                       /\ (~s.combined /\ RowSpan(s) = 480 /\ s.dur = 480 /\ s.eff = 90
                           => enrichedSleep[k]._duration = 43200)
                       /\ (s.combined /\ s.dur = 420 => enrichedSleep[k]._duration = 42000)

\* The two examples of the claim, one after the other being out of reach of
\* one state, the non-combined one is the witness: span 480, rawDuration
\* 480, efficiency 90.
C4_Witness ==
    /\ uploadPc = "returned"
    /\ Len(enrichedSleep) = 1
    /\ ~enrichedSleep[1]._isCombined
    /\ enrichedSleep[1].row["end"] = At(480)
    /\ enrichedSleep[1].row.dur = 480
    /\ enrichedSleep[1].row.eff = 90
    /\ enrichedSleep[1]._duration = 43200

\* C5: a sleep row whose start is absent or unparseable is dropped and
\* transformHealthData completes normally, processing every other row.
C5_TolerantSleepIngestion ==
    (uploadPc \in {"returned", "caught"} /\ ~rawData.corrupt) =>
        /\ uploadPc = "returned"
        /\ \A k \in 1..Len(enrichedSleep) : enrichedSleep[k].row.start.k = "ok"

\* The half of C5 that holds: an unparseable (but present) start drops the row.
UnparseableStartDropped ==
    (uploadPc \in {"returned", "caught"} /\ ~rawData.corrupt
     /\ \A i \in 1..Len(rawData.sleep) : rawData.sleep[i].start.k # "absent") =>
        /\ uploadPc = "returned"
        /\ \A k \in 1..Len(enrichedSleep) : enrichedSleep[k].row.start.k = "ok"

\* C7: when no year is discovered the upload flow ends in the 'upload' step
\* through its error path, and never shows the 'dashboard' step with a result
\* that holds no YearStats.
C7_NoYearsIsAFailure ==
    /\ ~(step = "dashboard" /\ allStats.present /\ allStats.keys = {})
    /\ (uploadPc = "returned" => allStats.keys # {})

\* C6: every bin file that heart-rate, stress or HRV rows refer to and that
\* is in the archive is read and JSON-parsed exactly once in one ingestion,
\* however many rows refer to it.
C6_BinParsedOnce ==
    zipPc = "done" =>
        \A name \in binRefs : InJsonMap(name) => binReads[name] = 1

\* The part of C6 that holds: a bin file that parses to an array is read once.
ArrayBinParsedOnce ==
    zipPc = "done" =>
        \A name \in binRefs :
            (InJsonMap(name) /\ zipJson[name] = "array") => binReads[name] = 1

\* A series all of whose elements are equal: its variance is 0.
ZeroVariance(series) == \A i, j \in 1..Len(series) : series[i] = series[j]

Negation(series) == [i \in 1..Len(series) |-> 0 - series[i]]

\* numerator / sqrt(radicand) is the integer k.
IsValue(r, k) ==
    /\ r.numerator * r.numerator = k * k * r.radicand
    /\ (r.numerator > 0) = (k > 0)
    /\ (r.numerator < 0) = (k < 0)

\* C9: for equal-length series of bounded integers, calculateCorrelation
\* returns 0 when the series are empty or one of them has all elements
\* equal; otherwise a series against itself gives 1 and a series against
\* its element-wise negation gives -1.
C9_Correlation ==
    (mathPc = "correlated" /\ Len(corrX) = Len(corrY)) =>
        /\ (corrX = <<>> \/ ZeroVariance(corrX) \/ ZeroVariance(corrY))
               => IsValue(corrResult, 0)
        /\ (~ZeroVariance(corrX) /\ corrY = corrX) => IsValue(corrResult, 1)
        /\ (~ZeroVariance(corrX) /\ corrY = Negation(corrX)) => IsValue(corrResult, 0 - 1)

C9_Witness ==
    /\ mathPc = "correlated"
    /\ corrX = <<1, 0 - 1, 0>>
    /\ corrY = Negation(corrX)
    /\ IsValue(corrResult, 0 - 1)

\* The components of the resultant of the times along and across the
\* direction of minute r.
Along(arr, r) == SumSeq([i \in 1..Len(arr) |-> Cos(arr[i] - r)])

Across(arr, r) == SumSeq([i \in 1..Len(arr) |-> Sin(arr[i] - r)])

\* The times cancel out: they have no mean direction.
NoDirection(arr) == Along(arr, 0) = 0 /\ Across(arr, 0) = 0

\* C10: for a non-empty list of minutes of the day calculateCircularAverage
\* returns a value in 0..1440 that is the circular mean: the resultant of
\* the times points along it, and turns from its left to its right within
\* a minute on either side; for {23:50, 00:10} the value is within a minute
\* of 0 modulo 1440, and is not 720.
C10_CircularAverage ==
    (mathPc = "averaged" /\ minutesArray # <<>>) =>
        /\ circResult \in 0..MinutesPerDay
        /\ ~NoDirection(minutesArray) =>
               /\ Along(minutesArray, circResult) > 0
               /\ Across(minutesArray, circResult - 1) > 0
               /\ Across(minutesArray, circResult + 1) < 0
        /\ minutesArray \in {<<1430, 10>>, <<10, 1430>>} =>
               circResult \in {0, 1, MinutesPerDay - 1, MinutesPerDay}

C10_Witness ==
    /\ mathPc = "averaged"
    /\ minutesArray = <<1430, 10>>
    /\ circResult \in {0, MinutesPerDay}

\* The step dates of a year, ascending, as the statistics see them.
StepDatesOf(yearInt) == SortedStepDates(YearSteps(healthData, yearInt))

\* Positions i..j of dates in which every adjacent pair is at most a day apart.
IsRun(dates, i, j) == \A k \in (i + 1)..j : dates[k] - dates[k - 1] <= MinutesPerDay

\* The largest number of adjacent pairs in a run, 0 when there is no pair.
LongestRun(dates) ==
    Max({0} \cup {j - i : <<i, j>> \in {p \in (1..Len(dates)) \X (1..Len(dates)) :
                                        p[1] <= p[2] /\ IsRun(dates, p[1], p[2])}})

DatesOfDays(days) == [i \in 1..Len(days) |-> days[i] * MinutesPerDay]

\* C11: a year's longest streak is the greatest value of a counter that,
\* over the year's step dates in ascending order, grows by one for each
\* adjacent pair at most one day apart and returns to zero after a wider
\* gap; for 1, 2, 3 and 5 January it is 2.
C11_LongestStreak ==
    statsPc = "returned" =>
        \A yearInt \in Range(StatsYears(healthData)) :
            /\ statsResult[ToString(yearInt)].longestStreak = LongestRun(StepDatesOf(yearInt))
            /\ StepDatesOf(yearInt) = DatesOfDays(<<0, 1, 2, 4>>)
                   => statsResult[ToString(yearInt)].longestStreak = 2

C11_Witness ==
    /\ statsPc = "returned"
    /\ StepDatesOf(2024) = DatesOfDays(<<0, 1, 2, 4>>)
    /\ statsResult["2024"].longestStreak = 2

\* The years that have statistics.
YearKeys == {ToString(y) : y \in Range(StatsYears(healthData))}

RECURSIVE SumOverKeys(_, _)
SumOverKeys(keys, field) ==
    IF keys = {} THEN 0
    ELSE LET k == CHOOSE x \in keys : TRUE
         IN  statsResult[k][field] + SumOverKeys(keys \ {k}, field)

AdditiveFields ==
    {"totalSteps", "totalCalories", "totalDistance", "totalWorkouts", "totalWorkoutDuration",
     "totalWorkoutCalories", "totalWorkoutDistance"}

RateFields == {"dailyAvg", "avgEfficiency", "avgRestingHR", "avgHRV", "avgStress"}

\* r is sum / n rounded to the nearest whole number, halves upwards.
IsRoundedMean(r, sum, n) == 2 * n * r - n <= 2 * sum /\ 2 * sum < 2 * n * r + n

\* C12: in 'All Time' every additive total is the sum of the per-year
\* values and every rate field is the rounded mean of the per-year values;
\* years with step records {100, 200} and {300} give totalSteps 600.
C12_AllTimeAggregation ==
    (statsPc = "returned" /\ YearKeys # {}) =>
        /\ \A f \in AdditiveFields : statsResult[AllTime][f] = SumOverKeys(YearKeys, f)
        /\ \A f \in RateFields :
               IsRoundedMean(statsResult[AllTime][f], SumOverKeys(YearKeys, f), Cardinality(YearKeys))
        /\ (YearKeys = {"2023", "2024"} /\ \A k \in YearKeys : statsResult[k].totalSteps = 300)
               => statsResult[AllTime].totalSteps = 600

C12_Witness ==
    /\ statsPc = "returned"
    /\ healthData.steps = <<StepRow(0, 100, ""), StepRow(0 - MinutesPerDay, 300, ""),
                            StepRow(31 * MinutesPerDay, 200, "")>>
    /\ statsResult["2023"].totalSteps = 300
    /\ statsResult["2024"].totalSteps = 300
    /\ statsResult[AllTime].totalSteps = 600
    /\ statsResult[AllTime].dailyAvg = Round(statsResult["2023"].dailyAvg + statsResult["2024"].dailyAvg, 2)

DailySeriesFields ==
    {"dailyStepData", "dailySleepData", "dailySleepScoreData", "dailyHRData", "dailyHRVData",
     "dailyStressData", "dailySpO2Data", "dailyWorkoutData"}

StrictlyByDate(series) == \A i \in 1..(Len(series) - 1) : series[i].date < series[i + 1].date

InDateOrder(series) == \A i \in 1..(Len(series) - 1) : series[i].date <= series[i + 1].date

\* C13: every per-day series of the 'All Time' entry is strictly increasing
\* by date: no entry is out of order and no two entries share a date.
C13_DailySeriesStrictlyOrdered ==
    (statsPc = "returned" /\ AllTime \in DOMAIN statsResult) =>
        \A f \in DailySeriesFields : StrictlyByDate(statsResult[AllTime][f])

\* The part of C13 that holds: no entry of a series is out of order, and
\* the series other than dailyStepData have one entry for a date.
DailySeriesInDateOrder ==
    (statsPc = "returned" /\ AllTime \in DOMAIN statsResult) =>
        \A f \in DailySeriesFields :
            /\ InDateOrder(statsResult[AllTime][f])
            /\ f # "dailyStepData" => StrictlyByDate(statsResult[AllTime][f])

\* The YearStats of the years as the merge receives them.
YearsInOrder ==
    LET years == StatsYears(healthData)
    IN  [i \in 1..Len(years) |-> statsResult[ToString(years[i])]]

YearOrders(n) == {p \in [1..n -> 1..n] : \A i, j \in 1..n : p[i] = p[j] => i = j}

Permuted(seq, p) == [i \in 1..Len(seq) |-> seq[p[i]]]

\* The 'best of' fields with the field that is maximised.
BestOfFields ==
    {<<"bestDay", "count">>, <<"bestMonth", "steps">>, <<"mostStepsDay", "count">>,
     <<"longestWorkout", "duration">>}

\* Two years share the greatest positive value of the field.
TiedBest(f) ==
    \E i, j \in 1..Len(YearsInOrder) :
        /\ i # j
        /\ YearsInOrder[i][f[1]][f[2]] = YearsInOrder[j][f[1]][f[2]]
        /\ YearsInOrder[i][f[1]][f[2]] > 0
        /\ \A k \in 1..Len(YearsInOrder) : YearsInOrder[k][f[1]][f[2]] <= YearsInOrder[i][f[1]][f[2]]

TiedBestSleepScore ==
    \E i, j \in 1..Len(YearsInOrder) :
        /\ i # j
        /\ ~RatioGreater(YearsInOrder[i].bestSleepScore.score, YearsInOrder[j].bestSleepScore.score)
        /\ ~RatioGreater(YearsInOrder[j].bestSleepScore.score, YearsInOrder[i].bestSleepScore.score)
        /\ YearsInOrder[i].bestSleepScore.score.n > 0
        /\ \A k \in 1..Len(YearsInOrder) :
               ~RatioGreater(YearsInOrder[k].bestSleepScore.score, YearsInOrder[i].bestSleepScore.score)

\* C14: whatever the order in which the per-year YearStats are merged, the
\* bestDay, bestMonth, mostStepsDay, longestWorkout and bestSleepScore of
\* 'All Time' are the same, labels included.
C14_BestOfCommutative ==
    (statsPc = "returned" /\ AllTime \in DOMAIN statsResult) =>
        \A p \in YearOrders(Len(YearsInOrder)) :
            LET merged == AllTimeStats(Permuted(YearsInOrder, p))
            IN  /\ \A f \in BestOfFields : merged[f[1]] = statsResult[AllTime][f[1]]
                /\ merged.bestSleepScore = statsResult[AllTime].bestSleepScore

\* C14 as it holds: whatever the order of the merge, the greatest number of
\* each 'best of' field is the same, and so are its labels unless two
\* years share that greatest (positive) number; then the labels are those
\* of the year that comes first in the merge.
C14_BestOfCommutativeUpToTies ==
    (statsPc = "returned" /\ AllTime \in DOMAIN statsResult) =>
        \A p \in YearOrders(Len(YearsInOrder)) :
            LET merged == AllTimeStats(Permuted(YearsInOrder, p))
                first(f) == Min({i \in 1..Len(YearsInOrder) :
                                   YearsInOrder[p[i]][f[1]][f[2]] = merged[f[1]][f[2]]})
            IN  /\ \A f \in BestOfFields :
                       /\ merged[f[1]][f[2]] = statsResult[AllTime][f[1]][f[2]]
                       /\ ~TiedBest(f) => merged[f[1]] = statsResult[AllTime][f[1]]
                       /\ TiedBest(f) => merged[f[1]] = YearsInOrder[p[first(f)]][f[1]]
                /\ ~RatioGreater(merged.bestSleepScore.score, statsResult[AllTime].bestSleepScore.score)
                /\ ~RatioGreater(statsResult[AllTime].bestSleepScore.score, merged.bestSleepScore.score)
                /\ ~TiedBestSleepScore => merged.bestSleepScore = statsResult[AllTime].bestSleepScore

C14_Witness ==
    /\ statsPc = "returned"
    /\ Len(YearsInOrder) = 2
    /\ YearsInOrder[1].bestDay.count > YearsInOrder[2].bestDay.count
    /\ YearsInOrder[2].bestDay.count > 0
    /\ AllTimeStats(Permuted(YearsInOrder, <<2, 1>>)).bestDay = statsResult[AllTime].bestDay
    /\ statsResult[AllTime].bestDay = YearsInOrder[1].bestDay

\* The fields that must be 0 when the export has no record of the metric.
EmptyMetricIsZero(stats) ==
    /\ healthData.oxygenSaturation = <<>> => stats.minSpO2 = 0
    /\ healthData.heartRate = <<>> => stats.avgRestingHR = 0
    /\ healthData.hrv = <<>> => stats.avgHRV = 0
    /\ healthData.stress = <<>> => stats.avgStress = 0
    /\ healthData.processedSleep = <<>> =>
           /\ stats.avgEfficiency = 0
           /\ stats.avgSleepScore = 0
           /\ stats.bestSleepScore.score = Ratio(0, 1)
    /\ healthData.exercises = <<>> =>
           /\ stats.totalWorkoutDuration = 0
           /\ stats.longestWorkout.duration = 0
    /\ healthData.steps = <<>> =>
           /\ stats.totalSteps = 0
           /\ stats.dailyAvg = 0
           /\ stats.bestDay.count = 0
           /\ stats.mostStepsDay.count = 0
           /\ stats.longestStreak = 0

\* C15: when the export has no record of a metric, the numeric fields of
\* that metric are 0 in every YearStats, 'All Time' included, and are never
\* NaN or Infinity.
C15_EmptyReductionsAreZero ==
    statsPc = "returned" =>
        \A k \in DOMAIN statsResult :
            /\ EmptyMetricIsZero(statsResult[k])
            /\ statsResult[k].minSpO2 \notin {Infinity, NotANumber}

\* The part of C15 that holds: the fields are 0 in the YearStats of single years.
EmptyReductionsOfAYearAreZero ==
    statsPc = "returned" =>
        \A k \in DOMAIN statsResult \ {AllTime} : EmptyMetricIsZero(statsResult[k])

\* The row's end field is missing, unparseable or not after its start.
EndUnusable(row) == row["end"].k # "ok" \/ row["end"].t <= row.start.t

WellFormedSession(s) ==
    /\ s._duration > 0
    /\ s._end >= s._start
    /\ EndUnusable(s.row) => s._end = s._start + s._rawDuration

\* C16: every sleep session that survives the enrichment, and every one
\* that survives the dedup, has an asleep duration above 0 and a local end
\* not before its local start; when the row's end is missing or not after
\* its start, the end is the start plus the raw duration.
C16_SurvivingSessionsWellFormed ==
    /\ \A i \in 1..Len(enrichedSleep) : WellFormedSession(enrichedSleep[i])
    /\ \A i \in 1..Len(keptSleep) : WellFormedSession(keptSleep[i])

C16_Witness ==
    \E i \in 1..Len(keptSleep) :
        /\ EndUnusable(keptSleep[i].row)
        /\ keptSleep[i].row["end"].k = "ok"
        /\ keptSleep[i]._end > keptSleep[i]._start

\* C19: for a non-combined sleep row whose end is missing or not after its
\* start, the session's span (_end - _start) is the raw duration, and with
\* an efficiency strictly between 0 and 100 its asleep time is the raw
\* duration times efficiency / 100 (_duration is in hundredths of a minute).
C19_SynthesizedEndAppliesEfficiency ==
    \A i \in 1..Len(enrichedSleep) :
        LET s == enrichedSleep[i]
        IN  (~s._isCombined /\ EndUnusable(s.row)) =>
                /\ s._end - s._start = s._rawDuration
                /\ (s._efficiency > 0 /\ s._efficiency < 100) =>
                       s._duration = s._rawDuration * s._efficiency

\* The part of C19 that holds: the synthesized end spans the raw duration.
SynthesizedEndSpansRawDuration ==
    \A i \in 1..Len(enrichedSleep) :
        LET s == enrichedSleep[i]
        IN  (~s._isCombined /\ EndUnusable(s.row)) => s._end - s._start = s._rawDuration

\* The fields of the header line and of a data line of the parsed text.
HeaderFields == splitCSVLine(csvText[csvHeader])

FieldsOfLine(i) == splitCSVLine(Trim(csvText[i]))

\* record holds exactly the names of headers, each with the value at the
\* position of the name (of its last occurrence, for a repeated name).
HoldsByPosition(record, headers, values) ==
    /\ DOMAIN record = Range(headers)
    /\ \A k \in 1..Len(headers) :
           (\A m \in (k + 1)..Len(headers) : headers[m] # headers[k]) =>
               record[headers[k]] = values[k]

\* The records that the lines from i on must give, in order.
RECURSIVE RecordsByArity(_, _, _)
RecordsByArity(i, headers, records) ==
    IF i > Len(csvText) THEN records = <<>>
    ELSE LET values == FieldsOfLine(i)
         IN  IF Len(values) < Len(headers)
             THEN RecordsByArity(i + 1, headers, records)
             ELSE /\ records # <<>>
                  /\ HoldsByPosition(Head(records), headers, values)
                  /\ RecordsByArity(i + 1, headers, Tail(records))

\* C17: of the lines after the header, those with fewer fields than the
\* header give no record; every other one gives a record, in order, whose
\* field names are exactly the header's, each holding the line's value at
\* the position of the name (of its last occurrence, for a name that the
\* header repeats); fields beyond the header's length are ignored.
C17_RowArity ==
    (csvPc = "done" /\ csvHeader > 0) => RecordsByArity(csvHeader + 1, HeaderFields, csvResult)

C17_Witness ==
    /\ csvPc = "done"
    /\ csvHeader > 0
    /\ \E i \in (csvHeader + 1)..Len(csvText) : Len(FieldsOfLine(i)) < Len(HeaderFields)
    /\ \E i \in (csvHeader + 1)..Len(csvText) : Len(FieldsOfLine(i)) > Len(HeaderFields)
    /\ Len(csvResult) = 1

\* The names that keep an entry out of a category.
NotExercise == {"custom_exercise", "weather", "location_data", "live_data"}

NotSleep == {"stage", "alarm", "log", "data_source", "raw"}

NotStress == {"histogram"}

\* C18: no row of data.exercises comes from an entry whose name contains
\* custom_exercise, weather, location_data or live_data, no row of
\* data.sleep from one whose name contains stage, alarm, log, data_source
\* or raw, no row of data.stress from one whose name contains histogram,
\* and no entry has rows in two categories.
C18_ClassificationExclusions ==
    /\ \A p \in zipFileNames["exercises"] : p.tokens \cap NotExercise = {}
    /\ \A p \in zipFileNames["sleep"] : p.tokens \cap NotSleep = {}
    /\ \A p \in zipFileNames["stress"] : p.tokens \cap NotStress = {}
    /\ \A c, d \in Categories : c # d => zipFileNames[c] \cap zipFileNames[d] = {}

\* An entry named for two categories and carrying a name excluded from the
\* second has given its rows to the first.
C18_Witness ==
    /\ zipPc = "done"
    /\ Path({"exercise", "sleep", "stage"}, TRUE) \in zipFileNames["exercises"]
    /\ Path({"stress", "histogram", "oxygen_saturation"}, TRUE) \in zipFileNames["oxygenSaturation"]
    /\ zipData["exercises"] > 0
    /\ zipData["sleep"] = 0
    /\ zipData["stress"] = 0

\* The flat value of a stress record as C20 has it: the score field or,
\* when that is absent, the stress field.
FlatScoreOrStress(s) == IF s.score # Blank THEN s.score ELSE s.stress

\* The samples of one stress record as C20 has them.
StressSamplesWithFlatStress(s) ==
    LET binData == BinData(healthData, s.binning_data, s.prefixed)
    IN  IF binData.found THEN BinValues(binData.bins, "score")
        ELSE IF FlatScoreOrStress(s) # Blank THEN <<FlatScoreOrStress(s)>>
        ELSE <<>>

StressRecordsOn(yearInt, day) ==
    SelectSeq(RecordsOfYear(healthData.stress, yearInt), LAMBDA r : DayOf(r.start_time.t) = day)

\* The day has an entry in the year's dailyStressData, with the rounded
\* mean of the samples.
HasDailyStress(yearInt, day, samples) ==
    \E i \in 1..Len(statsResult[ToString(yearInt)].dailyStressData) :
        LET d == statsResult[ToString(yearInt)].dailyStressData[i]
        IN  d.date = day /\ d.value = Round(SumSeq(samples), Len(samples))

\* C20: every day with stress records that carry a value appears in the
\* year's dailyStressData with the rounded mean of the values: the bin
\* scores of a record with resolved bin data, else the record's score
\* field or, when that is absent, its stress field.
C20_DailyStressValue ==
    statsPc = "returned" =>
        \A y \in Range(StatsYears(healthData)) :
            \A day \in Range(RecordDays(healthData.stress, y)) :
                LET rs == StressRecordsOn(y, day)
                    samples == FlattenSeq([i \in 1..Len(rs) |-> StressSamplesWithFlatStress(rs[i])])
                IN  samples # <<>> => HasDailyStress(y, day, samples)

\* The part of C20 that holds: the same with the score field alone as the
\* flat value.
DailyStressFromBinsOrScore ==
    statsPc = "returned" =>
        \A y \in Range(StatsYears(healthData)) :
            \A day \in Range(RecordDays(healthData.stress, y)) :
                LET rs == StressRecordsOn(y, day)
                    samples == FlattenSeq([i \in 1..Len(rs) |-> StressSamples(healthData, rs[i])])
                IN  samples # <<>> => HasDailyStress(y, day, samples)

\* The spo2 values recorded on a day of a year.
SpO2ValuesOn(yearInt, day) ==
    {r.spo2 : r \in {o \in Range(RecordsOfYear(healthData.oxygenSaturation, yearInt)) :
                        DayOf(o.start_time.t) = day /\ o.spo2 # Blank}}

\* C21: every entry of a year's dailySpO2Data holds the least of the spo2
\* values recorded on its day, of which there is at least one; a day with
\* no positive spo2 value has no entry.
C21_DailySpO2IsASample ==
    statsPc = "returned" =>
        \A y \in Range(StatsYears(healthData)) :
            \A i \in 1..Len(statsResult[ToString(y)].dailySpO2Data) :
                LET d == statsResult[ToString(y)].dailySpO2Data[i]
                IN  /\ d.value \in SpO2ValuesOn(y, d.date)
                    /\ \A v \in SpO2ValuesOn(y, d.date) : d.value <= v

\* The part of C21 that holds: a day with an spo2 value has an entry, with
\* the least of the day's values.
DailySpO2OfSampledDays ==
    statsPc = "returned" =>
        \A y \in Range(StatsYears(healthData)) :
            \A day \in Range(RecordDays(healthData.oxygenSaturation, y)) :
                SpO2ValuesOn(y, day) # {} =>
                    \E i \in 1..Len(statsResult[ToString(y)].dailySpO2Data) :
                        LET d == statsResult[ToString(y)].dailySpO2Data[i]
                        IN  /\ d.date = day
                            /\ d.value \in SpO2ValuesOn(y, day)
                            /\ \A v \in SpO2ValuesOn(y, day) : d.value <= v

\* The (date, duration) pairs of a year's sleep days, by date.
SleepDaysOf(yearInt) == statsResult[ToString(yearInt)].dailySleepData

\* The mean duration of the days from a to b of the pairs, as a quotient.
MeanDuration(pairs, a, b) ==
    IF b < a THEN Ratio(0, 1) ELSE Ratio(SumField(SubSeq(pairs, a, b), "duration"), b - a + 1)

\* The trend C22 gives for pairs in the order of their dates.
TrendOfHalves(pairs) ==
    LET half == Len(pairs) \div 2
        earlier == MeanDuration(pairs, 1, half)
        later == MeanDuration(pairs, half + 1, Len(pairs))
    IN  IF later.n * 100 * earlier.d > earlier.n * 105 * later.d THEN "improving"
        ELSE IF later.n * 100 * earlier.d < earlier.n * 95 * later.d THEN "declining"
        ELSE "stable"

\* C22: a year's sleepQualityTrend is 'improving' when the mean duration
\* of the later half of the year's sleep days, taken in the order of their
\* dates, is more than 5% above the mean of the earlier half, 'declining'
\* when it is more than 5% below, 'stable' otherwise; so it is a function
\* of the (date, duration) pairs alone.
C22_SleepQualityTrend ==
    statsPc = "returned" =>
        \A y \in Range(StatsYears(healthData)) :
            statsResult[ToString(y)].sleepQualityTrend = TrendOfHalves(SleepDaysOf(y))

\* The part of C22 that holds: the trend is that of the two halves of the
\* days taken in the order in which the kept sessions first name them.
SleepQualityTrendInKeptOrder ==
    statsPc = "returned" =>
        \A y \in Range(StatsYears(healthData)) :
            LET days == DailySleep(SleepRecords(healthData, y))
            IN  statsResult[ToString(y)].sleepQualityTrend =
                    TrendOfHalves([i \in 1..Len(days) |->
                                      [date |-> days[i].date, duration |-> days[i].duration]])

\* The start instants of the workouts of a year of the export.
WorkoutStarts(yearInt) ==
    LET es == RecordsOfYear(healthData.exercises, yearInt)
    IN  [i \in 1..Len(es) |-> es[i].start_time.t]

\* C23: fitnessType is 'Early Bird' exactly when the mean start hour of
\* the year's workouts is below 10, 'Night Owl' exactly when it is above 17
\* and 'Balanced' otherwise; workoutStyle is 'Weekend Warrior' exactly when
\* the weekend sessions are more than 1.5 times the weekday sessions,
\* else 'Consistent Grinder' exactly when the year has more than 150
\* sessions, else 'Casual'; a year without workouts is 'Balanced' and
\* 'Casual'.
C23_PersonalityLabels ==
    statsPc = "returned" =>
        \A y \in Range(StatsYears(healthData)) :
            LET starts == WorkoutStarts(y)
                n == Len(starts)
                hours == SumSeq([i \in 1..n |-> (starts[i] % 1440) \div 60])
                weekend == Cardinality({i \in 1..n : (starts[i] \div 1440) % 7 \in {5, 6}})
                stats == statsResult[ToString(y)]
            IN  /\ (stats.fitnessType = "Early Bird") <=> (n > 0 /\ hours < 10 * n)
                /\ (stats.fitnessType = "Night Owl") <=> (n > 0 /\ hours > 17 * n)
                /\ stats.fitnessType \in {"Early Bird", "Night Owl", "Balanced"}
                /\ (stats.workoutStyle = "Weekend Warrior") <=> (2 * weekend > 3 * (n - weekend))
                /\ (stats.workoutStyle = "Consistent Grinder") <=>
                       (~(2 * weekend > 3 * (n - weekend)) /\ n > 150)
                /\ stats.workoutStyle \in {"Weekend Warrior", "Consistent Grinder", "Casual"}
                /\ n = 0 => stats.fitnessType = "Balanced" /\ stats.workoutStyle = "Casual"

C23_Witness ==
    /\ statsPc = "returned"
    /\ "2024" \in DOMAIN statsResult
    /\ Len(WorkoutStarts(2024)) = 151
    /\ statsResult["2024"].workoutStyle = "Consistent Grinder"
    /\ statsResult["2024"].fitnessType = "Night Owl"

\* C24: the Wrapped story has 12 slides and the slide shown is always one
\* of them (0..11): 'previous' on the first slide and 'next' on the last
\* leave it where it is, elsewhere they move by one, and a dot shows the
\* slide of its index.
C24_SlideIndexInRange ==
    /\ Len(slides) = 12
    /\ activeSlide \in 0..11
    /\ slideClick.kind = "previous" =>
           activeSlide = (IF slideClick.from = 0 THEN 0 ELSE slideClick.from - 1)
    /\ slideClick.kind = "next" =>
           activeSlide = (IF slideClick.from = 11 THEN 11 ELSE slideClick.from + 1)
    /\ slideClick.kind = "dot" => activeSlide = slideClick.idx

C24_Witness ==
    /\ activeView = "wrapped"
    /\ slideClick = [kind |-> "next", idx |-> 0, from |-> 11]
    /\ activeSlide = 11

\* The years in whose dailySleepData the day of the session's local start
\* has an entry.
YearsCounting(session) ==
    {y \in Range(StatsYears(healthData)) :
        \E i \in 1..Len(statsResult[ToString(y)].dailySleepData) :
            statsResult[ToString(y)].dailySleepData[i].date = DayOf(session._start)}

\* C25: every kept sleep session is counted in the sleep statistics of
\* exactly one of the years found, and every date of a year's
\* dailySleepData lies in that year, also for a session whose UTC start
\* and local start fall in different years.
C25_SleepCountedInOneYear ==
    statsPc = "returned" =>
        /\ \A k \in 1..Len(healthData.processedSleep) :
               Cardinality(YearsCounting(healthData.processedSleep[k])) = 1
        /\ \A y \in Range(StatsYears(healthData)) :
               \A i \in 1..Len(statsResult[ToString(y)].dailySleepData) :
                   YearOf(statsResult[ToString(y)].dailySleepData[i].date * MinutesPerDay) = y

\* The part of C25 that holds: sessions whose UTC start and local start
\* fall in the same year.
SleepOfOneYearCountedOnce ==
    statsPc = "returned" =>
        \A k \in 1..Len(healthData.processedSleep) :
            LET s == healthData.processedSleep[k]
            IN  YearOf(s.row.start.t) = YearOf(s._start) =>
                    /\ YearOf(s._start) \in YearsCounting(s)
                    /\ \A y \in YearsCounting(s) :
                           y = YearOf(s._start)
                           \/ \E j \in 1..Len(healthData.processedSleep) :
                                  /\ DayOf(healthData.processedSleep[j]._start) = DayOf(s._start)
                                  /\ YearOf(healthData.processedSleep[j].row.start.t) = y

NoRedundancyOfTheLater ==
    uploadPc = "returned" =>
        \A a, b \in 1..Len(keptSleep) :
            a < b =>
                SharedMinutes(keptSleep[a], keptSleep[b]) * 1000 <= 8 * keptSleep[b]._duration

\* C27: each of the four sleep archetypes is the label of some year of some
\* input; in particular some sessions of an average efficiency of at most
\* 85 are labelled 'Night Owl'.
SleepInputs == SleepData \cup ShiftedSleepData \cup BedtimeData

ArchetypesOf(data) ==
    {SleepArchetype(DailySleep(SleepRecords(data, yearInt))) : yearInt \in {2023, 2024}}

C27_EveryArchetypeReachable ==
    healthData \in SleepInputs =>
        \A label \in {"Consistent Sleeper", "Night Owl", "Early Riser", "Variable"} :
            \E data \in SleepInputs : label \in ArchetypesOf(data)

\* What holds instead: no year is ever labelled 'Night Owl', and a year of
\* an average efficiency of at most 85 is an 'Early Riser' or 'Variable',
\* also when every night began at 23:00 or later.
NeverNightOwl ==
    statsPc = "returned" =>
        \A y \in DOMAIN statsResult : statsResult[y].sleepArchetype # "Night Owl"

ConsistentSleeperReached ==
    /\ statsPc = "returned"
    /\ "2024" \in DOMAIN statsResult
    /\ statsResult["2024"].sleepArchetype = "Consistent Sleeper"

EarlyRiserReached ==
    /\ statsPc = "returned"
    /\ "2024" \in DOMAIN statsResult
    /\ statsResult["2024"].sleepArchetype = "Early Riser"
    /\ Len(healthData.processedSleep) > 0

\* Two nights begun at 23:30 and 23:59, of an efficiency of 80.
LateNightsAreVariable ==
    /\ statsPc = "returned"
    /\ Len(healthData.processedSleep) = 2
    /\ \A i \in 1..2 : /\ MinuteOfDay(healthData.processedSleep[i]._start) >= 23 * 60
                        /\ healthData.processedSleep[i]._efficiency = 80
    /\ statsResult["2024"].sleepArchetype = "Variable"
\* C28: a year's longest streak never exceeds the number of distinct
\* calendar days of the year that have a step record, less one; several
\* records of one day do not lengthen the streak.
StepDaysOf(yearSteps) == {DayOf(StepDate(yearSteps[i]).t) : i \in 1..Len(yearSteps)}

C28_StreakWithinDistinctDays ==
    statsPc = "returned" =>
        \A yearInt \in {2023, 2024} :
            LET yearSteps == YearSteps(healthData, yearInt)
            IN  Len(yearSteps) > 0 =>
                    statsResult[ToString(yearInt)].longestStreak
                        <= Cardinality(StepDaysOf(yearSteps)) - 1

\* What holds instead: the streak is below the number of step records of
\* the year, and below the number of days when no day has two records.
StreakWithinRecords ==
    statsPc = "returned" =>
        \A yearInt \in {2023, 2024} :
            LET yearSteps == YearSteps(healthData, yearInt)
                streak == statsResult[ToString(yearInt)].longestStreak
            IN  Len(yearSteps) > 0 =>
                    /\ streak <= Len(yearSteps) - 1
                    /\ Cardinality(StepDaysOf(yearSteps)) = Len(yearSteps)
                           => streak <= Cardinality(StepDaysOf(yearSteps)) - 1
\* C30: in the statistics of a year with steps, bestMonth.name is
\* mostProductiveMonth, bestMonth.steps is the largest of the twelve
\* entries of monthlyTrends, and the entries sum to totalSteps; for every
\* order of the step records, months of equal totals included.
MonthSteps(stats) == {stats.monthlyTrends[m].steps : m \in 1..12}

MonthsOfMost(stats) ==
    {stats.monthlyTrends[m].month : m \in {k \in 1..12 : stats.monthlyTrends[k].steps = Max(MonthSteps(stats))}}

C30_BestMonthIsMostProductive ==
    statsPc = "returned" =>
        \A y \in DOMAIN statsResult \ {AllTime} :
            LET stats == statsResult[y]
            IN  stats.totalSteps > 0 =>
                    /\ Len(stats.monthlyTrends) = 12
                    /\ stats.bestMonth.name = stats.mostProductiveMonth
                    /\ stats.bestMonth.steps = Max(MonthSteps(stats))
                    /\ SumSeq([m \in 1..12 |-> stats.monthlyTrends[m].steps]) = stats.totalSteps

\* What holds instead: the steps and the sum agree, both names are months
\* of the largest total, and they are the same month when only one month
\* has that total.
BestMonthAmongMostProductive ==
    statsPc = "returned" =>
        \A y \in DOMAIN statsResult \ {AllTime} :
            LET stats == statsResult[y]
            IN  stats.totalSteps > 0 =>
                    /\ Len(stats.monthlyTrends) = 12
                    /\ stats.bestMonth.steps = Max(MonthSteps(stats))
                    /\ SumSeq([m \in 1..12 |-> stats.monthlyTrends[m].steps]) = stats.totalSteps
                    /\ stats.bestMonth.name \in MonthsOfMost(stats)
                    /\ stats.mostProductiveMonth \in MonthsOfMost(stats)
                    /\ Cardinality(MonthsOfMost(stats)) = 1
                           => stats.bestMonth.name = stats.mostProductiveMonth

\* A year of two months of different totals, met in the order Feb, Jan.
MonthsAgreeWithoutTie ==
    /\ statsPc = "returned"
    /\ "2024" \in DOMAIN statsResult
    /\ statsResult["2024"].bestMonth = [name |-> "Jan", steps |-> 300]
    /\ statsResult["2024"].mostProductiveMonth = "Jan"
    /\ statsResult["2024"].totalSteps = 500
    /\ MonthOf(StepDate(healthData.steps[1]).t) = "Feb"
\* C29: formatToHHmm of a circular average is the placeholder '--:--' or a
\* time HH:MM with HH in 00..23 and MM in 00..59, for every value, whole
\* or not, that the average takes.
ValidTime(time) == time = NoTime \/ (time.k = "HH:MM" /\ time.h \in 0..23 /\ time.m \in 0..59)

C29_FormattedTimeIsValid == mathPc = "formatted" => ValidTime(hhmm)

\* What holds instead: the hour is in 0..23 and the minute in 0..60; the
\* minute is 60 exactly when the average is within half a minute below a
\* full hour, without being that hour; and the placeholder stands for an
\* empty list and for an average of exactly 0, midnight.
FormattedTimeUpToSixty ==
    mathPc = "formatted" =>
        /\ circTenths \in 0..(10 * MinutesPerDay)
        /\ hhmm = NoTime <=> circTenths = 0
        /\ hhmm # NoTime =>
               /\ hhmm.k = "HH:MM"
               /\ hhmm.h \in 0..23
               /\ hhmm.m \in 0..60
               /\ hhmm.m = 60 <=> circTenths % 600 \in 595..599
               /\ hhmm.h = (circTenths \div 600) % 24

\* Bedtimes of 23:59, 00:00 and 00:00 average to 23:59 and two thirds of
\* a minute, which is printed as 23:60.
LateAverageIsSixty ==
    /\ mathPc = "formatted"
    /\ minutesArray = <<1439, 0, 0>>
    /\ hhmm = [k |-> "HH:MM", h |-> 23, m |-> 60]

WholeAverageIsValid ==
    /\ mathPc = "formatted"
    /\ minutesArray = <<1430, 1430>>
    /\ hhmm = [k |-> "HH:MM", h |-> 23, m |-> 50]
====
